---- MODULE Spec2Model ----
(***************************************************************************)
(* A model of the mcpy / mcpyrate macro expander core:                     *)
(*   - astify / unastify (src/mcpy/quotes.py)                              *)
(*   - the hygienic capture registries and gensym                          *)
(*   - the quasiquote operators q, u, n, a, s, h and the nesting level     *)
(*   - BaseMacroExpander (src/mcpy/visitors.py)                            *)
(*                                                                         *)
(* Python values and AST nodes are records tagged by the field t.  The     *)
(* recursive Python functions are RECURSIVE operators that thread the      *)
(* mutable process state (level stack, registries, visitor mode) through   *)
(* a record `st` and return a result record [tree, st, exc].               *)
(***************************************************************************)
EXTENDS Integers, Sequences, FiniteSets, TLC

VARIABLES
    \* ---- lift / lower (astify, unastify)
    val,                \* the Python value handed to astify
    lifted,             \* result of astify(val)
    lowered,            \* result of unastify(lifted)
    \* ---- process-wide registries (quotes.py:36, core._hygienic_bindings, utilities.py:13)
    hygienic_registry,  \* _hygienic_registry: key -> object
    hygienic_bindings,  \* _hygienic_bindings: key -> macro function
    previous_gensyms,   \* _previous_gensyms
    returned,           \* history: every <<registry, key, object>> a capture has returned
    lastop,             \* history: the last registry operation and its outcome
    \* ---- the expanders (visitors.py, quotes.py:247)
    quotelevel,         \* _quotelevel.stack
    recursive,          \* _recursive of the main expander
    call,               \* the last call made on the main expander
    outcome,            \* history: what that call returned or raised, and its trace
    \* ---- the importer (src/mcpyrate/importer.py)
    importer,           \* where source_to_xcode is, its locals, what was compiled
    \* ---- a NestingLevelTracker in use (src/mcpy/utilities.py)
    regions,            \* history: the with statements entered and not yet left
    tracked             \* history: the last operation on the tracker

liftVars == <<val, lifted, lowered>>
regVars  == <<hygienic_registry, hygienic_bindings, previous_gensyms, returned, lastop>>
walkVars == <<quotelevel, recursive, call, outcome>>
importVars == <<importer>>
trackVars == <<regions, tracked>>
vars     == <<liftVars, regVars, walkVars, importVars, trackVars>>

-----------------------------------------------------------------------------
(* Bounds *)

\* how many times a start value is wrapped into a collection or a node
MaxWrap == 2
\* run-time objects that can be captured
MaxObjects == 2

-----------------------------------------------------------------------------
(* Python values *)

PyInt(i)    == [t |-> "int", i |-> i]
PyFloat(f)  == [t |-> "float", f |-> f]        \* the float f.0
PyStr(s)    == [t |-> "str", s |-> s]
PyBytes(s)  == [t |-> "bytes", y |-> s]
PyBool(b)   == [t |-> "bool", b |-> b]
PyNone      == [t |-> "none"]
\* the str that unparse(tree) renders
PyText(tr)  == [t |-> "text", of |-> tr]
\* the str f"{basename}_{unique}" made by gensym
PySym(b, u) == [t |-> "sym", base |-> b, uid |-> u]
PyList(es)  == [t |-> "list", elts |-> es]
PyTuple(es) == [t |-> "tuple", elts |-> es]
PySet(ms)   == [t |-> "set", members |-> ms]
\* a dict is its sequence of <<key, value>> pairs in insertion order
PyDict(ps)  == [t |-> "dict", pairs |-> ps]
\* a value of a type astify does not know (frozenset, complex, object(), ...)
Object(id)  == [t |-> "object", id |-> id]

AtomTags == {"int", "float", "str", "bytes", "bool", "none", "text", "sym"}
\* any object passes for an atom
IsAtomOrObject(x) == x.t \in AtomTags \cup {"object"}
\* quotes.py:131, T in (int, float, str, bytes, bool, type(None))
IsAtom(x) == x.t \in AtomTags

\* An AST node: its class name, its lineno attribute (0: no such attribute)
\* and the fields that are set on it (a function from field names).
NodeAt(kind, line, fields) ==
    [t |-> "node", kind |-> kind, line |-> line, fields |-> fields]
Node(kind, fields) == [t |-> "node", kind |-> kind, line |-> 0, fields |-> fields]
IsNode(x) == x.t = "node"
IsKind(x, kind) == x.t = "node" /\ x.kind = kind
NoFields == [f \in {} |-> PyNone]

\* _fields of the node classes used here, in class order
FieldsOf(kind) ==
    CASE kind = "Name"         -> <<"id", "ctx">>
      [] kind = "Constant"     -> <<"value", "kind">>
      [] kind = "Attribute"    -> <<"value", "attr", "ctx">>
      [] kind = "Subscript"    -> <<"value", "slice", "ctx">>
      [] kind = "BinOp"        -> <<"left", "op", "right">>
      [] kind = "Call"         -> <<"func", "args", "keywords">>
      [] kind = "keyword"      -> <<"arg", "value">>
      [] kind = "List"         -> <<"elts", "ctx">>
      [] kind = "Tuple"        -> <<"elts", "ctx">>
      [] kind = "Set"          -> <<"elts">>
      [] kind = "Dict"         -> <<"keys", "values">>
      [] kind = "Expr"         -> <<"value">>
      [] kind = "Assign"       -> <<"targets", "value", "type_comment">>
      [] kind = "Module"       -> <<"body", "type_ignores">>
      [] kind = "With"         -> <<"items", "body", "type_comment">>
      [] kind = "withitem"     -> <<"context_expr", "optional_vars">>
      [] kind = "ImportFrom"   -> <<"module", "names", "level">>
      [] kind = "ASTMarker"    -> <<"body">>
      [] kind = "Done"         -> <<"body">>
      [] kind = "ASTLiteral"   -> <<"body">>
      [] kind = "CaptureLater" -> <<"body", "name">>
      [] OTHER                 -> <<>>

\* ast.iter_fields: the fields of _fields that are set on the node, in order
IterFields(x) ==
    SelectSeq(FieldsOf(x.kind), LAMBDA f : f \in DOMAIN x.fields)

Load == Node("Load", NoFields)
Name(id) == Node("Name", [id |-> PyStr(id)])
NameLoad(id) == Node("Name", [id |-> PyStr(id), ctx |-> Load])
Constant(v) == Node("Constant", [value |-> v])
Attribute(v, attr) == Node("Attribute", [value |-> v, attr |-> PyStr(attr), ctx |-> Load])
Call(func, args, keywords) ==
    Node("Call", [func |-> func, args |-> PyList(args), keywords |-> PyList(keywords)])
Keyword(arg, v) == Node("keyword", [arg |-> arg, value |-> v])

\* markers (quotes.py:18-31, markers.py:16-41)
ASTLiteral(body) == Node("ASTLiteral", [body |-> body])
CaptureLater(body, name) == Node("CaptureLater", [body |-> body, name |-> name])
QuasiquoteMarkerKinds == {"ASTLiteral", "CaptureLater"}

-----------------------------------------------------------------------------
(* Results and exceptions *)

NoExc == [t |-> "noexc"]
NoMsg == [t |-> "nomsg"]
ExcFrom(type, msg, cause) == [t |-> "exc", type |-> type, msg |-> msg, cause |-> cause]
Exc(type) == ExcFrom(type, NoMsg, NoExc)
Raised(r) == r.exc # NoExc

R(tree, st, exc) == [tree |-> tree, st |-> st, exc |-> exc]
Ok(tree, st) == R(tree, st, NoExc)
Fail(st, exc) == R(PyNone, st, exc)

NoExpander == [t |-> "noexpander"]

-----------------------------------------------------------------------------
(* Python dicts as insertion-ordered sequences of <<key, value>> pairs *)

DictKeys(d) == {d[i][1] : i \in DOMAIN d}
DictHas(d, k) == \E i \in DOMAIN d : d[i][1] = k
DictGet(d, k) == d[CHOOSE i \in DOMAIN d : d[i][1] = k][2]
\* d[k] = v : rebinds an existing key in place, appends a new one
DictSet(d, k, v) ==
    IF DictHas(d, k)
    THEN [i \in DOMAIN d |-> IF d[i][1] = k THEN <<k, v>> ELSE d[i]]
    ELSE Append(d, <<k, v>>)

\* objects with an identity: run-time values and macro functions
PyObj(id, v) == [t |-> "pyobj", id |-> id, value |-> v]
Fn(id) == [t |-> "fn", id |-> id]
\* what == compares
ValueOf(x) == IF "value" \in DOMAIN x THEN x.value ELSE x
\* Python's `a is b`
Is(a, b) ==
    IF "id" \in DOMAIN a /\ "id" \in DOMAIN b THEN a.id = b.id
    ELSE IF "id" \in DOMAIN a \/ "id" \in DOMAIN b THEN FALSE
    ELSE a = b

-----------------------------------------------------------------------------
(* The process state threaded through the recursive operators              *)
(*   stack  : _quotelevel.stack                  (utilities.py:81)         *)
(*   hb     : _hygienic_bindings                 (quotes.py:10, 120)       *)
(*   hr     : _hygienic_registry                 (quotes.py:36)            *)
(*   gens   : _previous_gensyms                  (utilities.py:13)         *)
(*   uuids  : the uuid4() draws still to come, an input of the run         *)
(*   ran    : history, the callables other than node constructors that     *)
(*            unastify has called                                          *)
(*   rec    : BaseMacroExpander._recursive of every expander instance, by   *)
(*            instance number                    (visitors.py:22)          *)
(*   walked : history, how many nodes the expanders have visited           *)
(*   pushes : history, how many times the level stack was pushed           *)
(*   trace  : history, one record per call of an operation of interest     *)

State0(stack, hr, hb, gens, uuids) ==
    [stack |-> stack, hr |-> hr, hb |-> hb, gens |-> gens, uuids |-> uuids,
     ran |-> {}, rec |-> <<TRUE>>, walked |-> 0, pushes |-> 0, trace |-> <<>>]

Log(st, ev) == [st EXCEPT !.trace = Append(@, ev)]

-----------------------------------------------------------------------------
(* gensym (utilities.py:14-31) *)

\* the first draw that is not a previous gensym; when the offered draws run
\* out the loop goes on until uuid4() yields one not used so far
RECURSIVE GensymLoop(_, _, _)
GensymLoop(base, gens, uuids) ==
    IF uuids = <<>>
    THEN [sym |-> PySym(base, CHOOSE u \in 1..(Cardinality(gens) + 1) :
                                /\ PySym(base, u) \notin gens
                                /\ \A w \in 1..(u - 1) : PySym(base, w) \in gens),
          uuids |-> <<>>]
    ELSE IF PySym(base, Head(uuids)) \in gens
         THEN GensymLoop(base, gens, Tail(uuids))
         ELSE [sym |-> PySym(base, Head(uuids)), uuids |-> Tail(uuids)]

\* returns [sym, st]
gensym(basename, st) ==
    LET base == IF basename \in {PyNone, PyStr("")} THEN PyStr("gensym") ELSE basename
        g == GensymLoop(base, st.gens, st.uuids)
    IN  [sym |-> g.sym,
         st  |-> [st EXCEPT !.gens = @ \cup {g.sym}, !.uuids = g.uuids]]

-----------------------------------------------------------------------------
(* _capture_into (quotes.py:47-55) *)

\* dedup by == in place of `is`
capture_into_by_equality(mapping, value, basename, st) ==
    IF \E i \in DOMAIN mapping : ValueOf(mapping[i][2]) = ValueOf(value)
    THEN LET i == CHOOSE j \in DOMAIN mapping : ValueOf(mapping[j][2]) = ValueOf(value)
         IN  [key |-> mapping[i][1], mapping |-> mapping, st |-> st]
    ELSE LET g == gensym(basename, st)
         IN  [key |-> g.sym, mapping |-> DictSet(mapping, g.sym, value), st |-> g.st]

\* the key is the bare basename, not a gensym of it
capture_into_plain_key(mapping, value, basename, st) ==
    IF \E i \in DOMAIN mapping : Is(mapping[i][2], value)
    THEN LET i == CHOOSE j \in DOMAIN mapping : Is(mapping[j][2], value)
         IN  [key |-> mapping[i][1], mapping |-> mapping, st |-> st]
    ELSE [key |-> PySym(basename, 0),
          mapping |-> DictSet(mapping, PySym(basename, 0), value), st |-> st]

\* returns [key, mapping, st]
capture_into(mapping, value, basename, st) ==
    IF \E i \in DOMAIN mapping : Is(mapping[i][2], value)
    THEN LET i == CHOOSE j \in DOMAIN mapping :
                     /\ Is(mapping[j][2], value)
                     /\ \A h \in 1..(j - 1) : ~Is(mapping[h][2], value)
         IN  [key |-> mapping[i][1], mapping |-> mapping, st |-> st]
    ELSE LET g == gensym(basename, st)
         IN  [key |-> g.sym, mapping |-> DictSet(mapping, g.sym, value), st |-> g.st]

\* _mcpy_quotes_attr (quotes.py:38-45)
mcpy_quotes == Attribute(NameLoad("mcpy"), "quotes")
mcpy_quotes_attr(attr) == Attribute(mcpy_quotes, attr)
\* _mcpy_quotes_attr("ast") (quotes.py:150)
mcpy_quotes_ast == mcpy_quotes_attr("ast")

\* capture (quotes.py:57-73)
capture(value, basename, st) ==
    LET c == capture_into(st.hr, value, basename, st)
    IN  Ok(Call(mcpy_quotes_attr("lookup"), <<Constant(c.key)>>, <<>>),
           [c.st EXCEPT !.hr = c.mapping])

\* lookup (quotes.py:75-77)
lookup(key, st) ==
    IF DictHas(st.hr, key) THEN Ok(DictGet(st.hr, key), st)
    ELSE Fail(st, Exc("KeyError"))

-----------------------------------------------------------------------------
\* TLC evaluates a function constructor anew at every application; these two
\* make the tuple and the record of it, each element evaluated once
TupleOfFcn(f) == <<>> \o f
RecordOfFcn(f) == f @@ NoFields

-----
(* astify (quotes.py:81-158) *)

\* some iteration order of a set
RECURSIVE SetToSeq(_)
SetToSeq(S) ==
    IF S = {} THEN <<>>
    ELSE LET x == CHOOSE y \in S : TRUE IN <<x>> \o SetToSeq(S \ {x})

\* expander.ismacroname(name)
ismacroname(e, name) == name.t = "str" /\ name.s \in DOMAIN e.bindings

RECURSIVE astify(_, _, _), astify_each(_, _, _)

\* list(recurse(elt) for elt in xs): left to right, the first failure ends
\* it.  The first three elements are taken one after the other, so that the
\* depth of the evaluation does not grow with the place in the list.
astify_each(xs, e, st) ==
    LET n == Len(xs)
        r1 == astify(xs[1], e, st)
        r2 == astify(xs[2], e, r1.st)
        r3 == astify(xs[3], e, r2.st)
        rest == astify_each(SubSeq(xs, 4, n), e, r3.st)
    IN  CASE n = 0 -> Ok(<<>>, st)
          [] r1.exc # NoExc -> r1
          [] n = 1 -> Ok(<<r1.tree>>, r1.st)
          [] r2.exc # NoExc -> r2
          [] n = 2 -> Ok(<<r1.tree, r2.tree>>, r2.st)
          [] r3.exc # NoExc -> r3
          [] rest.exc # NoExc -> rest
          [] OTHER -> Ok(<<r1.tree, r2.tree, r3.tree>> \o rest.tree, rest.st)

\* a tuple lifted as ast.List: the lowering then yields a list
astify_tuple_as_list(x, e, st) ==
    LET r == astify_each(x.elts, e, st)
    IN  IF r.exc # NoExc THEN r ELSE Ok(Node("List", [elts |-> PyList(r.tree)]), r.st)

\* quotes.py:136-137
astify_tuple(x, e, st) ==
    LET r == astify_each(x.elts, e, st)
    IN  IF r.exc # NoExc THEN r ELSE Ok(Node("Tuple", [elts |-> PyList(r.tree)]), r.st)

\* the value is captured while q expands
astify_capture_at_once(x, e, st) == capture(x.fields.body, PyStr("x"), st)

\* quotes.py:108-129, a CaptureLater marker
astify_capture(x, e, st) ==
    LET body == x.fields.body IN
    IF /\ e # NoExpander
       /\ IsKind(body, "Name")
       /\ ismacroname(e, body.fields.id)
    THEN LET macroname == body.fields.id
             function  == e.bindings[macroname.s]
             c == capture_into(st.hb, function, macroname, st)
         IN  astify(Node("Name", [id |-> c.key]), e, [c.st EXCEPT !.hb = c.mapping])
    ELSE Ok(Call(mcpy_quotes_attr("capture"), <<body, Constant(x.fields.name)>>, <<>>),
            st)

\* quotes.py:138-140, a dict
astify_dict(x, e, st) ==
    LET ks == astify_each(TupleOfFcn([i \in DOMAIN x.pairs |-> x.pairs[i][1]]), e, st)
        vs == astify_each(TupleOfFcn([i \in DOMAIN x.pairs |-> x.pairs[i][2]]), e, ks.st)
    IN  IF ks.exc # NoExc THEN ks
        ELSE IF vs.exc # NoExc THEN vs
        ELSE Ok(Node("Dict", [keys |-> PyList(ks.tree), values |-> PyList(vs.tree)]),
                vs.st)

\* quotes.py:141-142, a set
astify_set(x, e, st) ==
    LET r == astify_each(SetToSeq(x.members), e, st)
    IN  IF r.exc # NoExc THEN r ELSE Ok(Node("Set", [elts |-> PyList(r.tree)]), r.st)

\* quotes.py:144-155, an AST node: a call of its class with its fields as
\* keyword arguments
astify_node(x, e, st) ==
    LET names == IterFields(x)
        r == astify_each(TupleOfFcn([i \in DOMAIN names |-> x.fields[names[i]]]), e, st)
    IN  IF r.exc # NoExc THEN r
        ELSE Ok(Call(Attribute(mcpy_quotes_ast, x.kind), <<>>,
                     TupleOfFcn([i \in DOMAIN names |->
                                    Keyword(PyStr(names[i]), r.tree[i])])),
                r.st)

\* quotes.py:81-158, the cases of recurse(x) in the order of the code
astify(x, e, st) ==
    CASE IsKind(x, "ASTLiteral") -> Ok(x.fields.body, st)
      [] IsKind(x, "CaptureLater") -> astify_capture(x, e, st)
      [] IsAtom(x) -> Ok(Constant(x), st)
      [] x.t = "list" ->
            LET r == astify_each(x.elts, e, st)
            IN  IF r.exc # NoExc THEN r
                ELSE Ok(Node("List", [elts |-> PyList(r.tree)]), r.st)
      [] x.t = "tuple" -> astify_tuple(x, e, st)
      [] x.t = "dict" -> astify_dict(x, e, st)
      [] x.t = "set" -> astify_set(x, e, st)
      [] IsNode(x) /\ x.kind \notin QuasiquoteMarkerKinds -> astify_node(x, e, st)
      [] OTHER -> Fail(st, Exc("TypeError"))

-----------------------------------------------------------------------------
(* unastify (quotes.py:160-236) *)

\* Python's == on the values that can be set members or dict keys
RECURSIVE PyEq(_, _)
IsNumber(x) == x.t \in {"int", "float", "bool"}
NumberOf(x) == CASE x.t = "int" -> x.i [] x.t = "float" -> x.f
                 [] x.t = "bool" -> IF x.b THEN 1 ELSE 0
PyEq(a, b) ==
    IF IsNumber(a) /\ IsNumber(b) THEN NumberOf(a) = NumberOf(b)
    ELSE IF a.t = "tuple" /\ b.t = "tuple"
         THEN /\ Len(a.elts) = Len(b.elts)
              /\ \A i \in DOMAIN a.elts : PyEq(a.elts[i], b.elts[i])
         ELSE a = b

RECURSIVE Hashable(_)
Hashable(x) ==
    IF x.t \in {"list", "set", "dict"} THEN FALSE
    ELSE IF x.t = "tuple" THEN \A i \in DOMAIN x.elts : Hashable(x.elts[i])
    ELSE TRUE

\* the names bound in the module mcpy.quotes (globals()) that matter here
QuoteFunctions == {"capture", "lookup", "astify", "unastify",
                   "q", "u", "n", "a", "s", "h"}
AstClasses == {"Name", "Constant", "Attribute", "Subscript", "BinOp", "Call",
               "keyword", "List", "Tuple", "Set", "Dict", "Expr", "Assign",
               "Load", "Add"}
AstFunctions == {"parse", "dump", "literal_eval"}
Thing(kind, name) == [t |-> "thing", kind |-> kind, name |-> name]

\* str.startswith("mcpy.quotes") on the joined dotted name: the identifiers
\* themselves hold no dot
StartsWithQuotes(ident) == ident \in {"quotes", "quotesx"}
StartsWithMcpyQuotes(path) ==
    Len(path) >= 2 /\ path[1] = "mcpy" /\ StartsWithQuotes(path[2])

\* attr_ast_to_dotted_name (quotes.py:175-191): [path, exc]
RECURSIVE dotted_acc(_)
dotted_acc(tree) ==
    LET v == tree.fields.value IN
    IF IsKind(v, "Attribute")
    THEN LET r == dotted_acc(v)
         IN  IF r.exc # NoExc THEN r
             ELSE [path |-> Append(r.path, tree.fields.attr), exc |-> NoExc]
    ELSE IF IsKind(v, "Name")
    THEN [path |-> <<v.fields.id, tree.fields.attr>>, exc |-> NoExc]
    ELSE [path |-> <<>>, exc |-> Exc("NotImplementedError")]

attr_ast_to_dotted_name(tree) ==
    IF ~IsKind(tree, "Attribute") THEN [path |-> <<>>, exc |-> Exc("TypeError")]
    ELSE LET r == dotted_acc(tree)
         IN  IF r.exc # NoExc THEN r
             \* ".".join(...) wants every item to be a str
             ELSE IF \E i \in DOMAIN r.path : r.path[i].t # "str"
                  THEN [path |-> <<>>, exc |-> Exc("TypeError")]
                  ELSE [path |-> [i \in DOMAIN r.path |-> r.path[i].s], exc |-> NoExc]

\* getattr(thing, attrname)
GetAttr(thing, attrname) ==
    IF thing.kind = "module" /\ attrname \in AstClasses
    THEN [thing |-> Thing("ctor", attrname), exc |-> NoExc]
    ELSE IF thing.kind = "module" /\ attrname \in AstFunctions
    THEN [thing |-> Thing("function", attrname), exc |-> NoExc]
    ELSE [thing |-> thing, exc |-> Exc("AttributeError")]

RECURSIVE GetAttrs(_, _)
GetAttrs(thing, names) ==
    IF names = <<>> THEN [thing |-> thing, exc |-> NoExc]
    ELSE LET g == GetAttr(thing, Head(names))
         IN  IF g.exc # NoExc THEN g ELSE GetAttrs(g.thing, Tail(names))

\* lookup_thing (quotes.py:193-205): [thing, exc]
lookup_thing(path) ==
    IF ~StartsWithMcpyQuotes(path)
    THEN [thing |-> PyNone, exc |-> Exc("NotImplementedError")]
    ELSE IF Len(path) < 3
    THEN [thing |-> PyNone, exc |-> Exc("NotImplementedError")]
    ELSE LET name_of_thing == path[3]
             thing == IF name_of_thing = "ast" THEN Thing("module", "ast")
                      ELSE IF name_of_thing \in QuasiquoteMarkerKinds
                      THEN Thing("ctor", name_of_thing)
                      ELSE Thing("function", name_of_thing)
         IN  IF name_of_thing \notin {"ast"} \cup QuasiquoteMarkerKinds \cup QuoteFunctions
             THEN [thing |-> PyNone, exc |-> Exc("KeyError")]
             ELSE GetAttrs(thing, SubSeq(path, 4, Len(path)))

\* {k: v for k, v in pairs}: a later pair of an equal key rebinds the value
RECURSIVE DictOfPairs(_, _)
DictOfPairs(acc, pairs) ==
    IF pairs = <<>> THEN acc
    ELSE LET k == Head(pairs)[1]
             v == Head(pairs)[2]
         IN  IF \E i \in DOMAIN acc : PyEq(acc[i][1], k)
             THEN DictOfPairs([i \in DOMAIN acc |->
                                  IF PyEq(acc[i][1], k) THEN <<acc[i][1], v>> ELSE acc[i]],
                              Tail(pairs))
             ELSE DictOfPairs(Append(acc, <<k, v>>), Tail(pairs))

\* {x for x in xs}: the first of several equal elements stays
RECURSIVE SetOfSeq(_, _)
SetOfSeq(acc, xs) ==
    IF xs = <<>> THEN acc
    ELSE IF \E m \in acc : PyEq(m, Head(xs))
         THEN SetOfSeq(acc, Tail(xs))
         ELSE SetOfSeq(acc \cup {Head(xs)}, Tail(xs))

\* cls(*args, **kwargs) of a node class: positional arguments fill _fields in order
Construct(kind, args, kwargs) ==
    LET fs == FieldsOf(kind)
        pos == {fs[i] : i \in 1..Len(args)}
        kws == {kwargs[i][1].s : i \in DOMAIN kwargs}
    IN  [f \in pos \cup kws |->
            IF f \in kws THEN DictGet(kwargs, PyStr(f))
            ELSE args[CHOOSE i \in 1..Len(args) : fs[i] = f]]

RECURSIVE unastify(_, _), unastify_each(_, _)

\* [unastify(elt) for elt in xs], the first three elements one after the
\* other as in astify_each
unastify_each(xs, st) ==
    LET n == Len(xs)
        r1 == unastify(xs[1], st)
        r2 == unastify(xs[2], r1.st)
        r3 == unastify(xs[3], r2.st)
        rest == unastify_each(SubSeq(xs, 4, n), r3.st)
    IN  CASE n = 0 -> Ok(<<>>, st)
          [] r1.exc # NoExc -> r1
          [] n = 1 -> Ok(<<r1.tree>>, r1.st)
          [] r2.exc # NoExc -> r2
          [] n = 2 -> Ok(<<r1.tree, r2.tree>>, r2.st)
          [] r3.exc # NoExc -> r3
          [] rest.exc # NoExc -> rest
          [] OTHER -> Ok(<<r1.tree, r2.tree, r3.tree>> \o rest.tree, rest.st)

\* callee(*args, **kwargs)
CallThing(callee, args, kwargs, st) ==
    CASE callee.kind = "ctor" ->
            IF \/ Len(args) > Len(FieldsOf(callee.name))
               \/ \E i \in DOMAIN kwargs : kwargs[i][1].t # "str"
            THEN Fail(st, Exc("TypeError"))
            ELSE Ok(Node(callee.name, Construct(callee.name, args, kwargs)), st)
      [] callee.kind = "module" -> Fail(st, Exc("TypeError"))
      [] callee.name = "capture" /\ Len(args) = 2 /\ kwargs = <<>> ->
            capture(args[1], args[2], [st EXCEPT !.ran = @ \cup {callee.name}])
      [] callee.name = "lookup" /\ Len(args) = 1 /\ kwargs = <<>> ->
            lookup(args[1], [st EXCEPT !.ran = @ \cup {callee.name}])
      [] callee.name = "astify" /\ Len(args) = 1 /\ kwargs = <<>> ->
            astify(args[1], NoExpander, [st EXCEPT !.ran = @ \cup {callee.name}])
      [] callee.name = "unastify" /\ Len(args) = 1 /\ kwargs = <<>> ->
            unastify(args[1], [st EXCEPT !.ran = @ \cup {callee.name}])
      \* any other callable, or a wrong argument list: the call is made, and what it
      \* does with these arguments is not followed further
      [] OTHER -> Fail([st EXCEPT !.ran = @ \cup {callee.name}], Exc("TypeError"))

\* quotes.py:207-236, the cases in the order of the code
unastify(tree, st) ==
    CASE IsKind(tree, "Constant") ->
            IF "value" \in DOMAIN tree.fields THEN Ok(tree.fields.value, st)
            ELSE Fail(st, Exc("AttributeError"))
      [] tree.t = "list" ->
            LET r == unastify_each(tree.elts, st)
            IN  IF r.exc # NoExc THEN r ELSE Ok(PyList(r.tree), r.st)
      [] IsKind(tree, "keyword") ->
            LET r == unastify(tree.fields.value, st)
            IN  IF r.exc # NoExc THEN r
                ELSE Ok(PyTuple(<<tree.fields.arg, r.tree>>), r.st)
      [] IsKind(tree, "List") ->
            LET r == unastify_each(tree.fields.elts.elts, st)
            IN  IF r.exc # NoExc THEN r ELSE Ok(PyList(r.tree), r.st)
      [] IsKind(tree, "Tuple") ->
            LET r == unastify_each(tree.fields.elts.elts, st)
            IN  IF r.exc # NoExc THEN r ELSE Ok(PyTuple(r.tree), r.st)
      [] IsKind(tree, "Dict") ->
            \* zip(keys, values): key, then value, pair by pair
            LET ks == tree.fields.keys.elts
                vs == tree.fields.values.elts
                n  == IF Len(ks) < Len(vs) THEN Len(ks) ELSE Len(vs)
                r  == unastify_each([i \in 1..(2 * n) |->
                                        IF i % 2 = 1 THEN ks[(i + 1) \div 2]
                                        ELSE vs[i \div 2]], st)
            IN  CASE r.exc # NoExc -> r
                  [] \E i \in 1..n : ~Hashable(r.tree[2 * i - 1]) ->
                        Fail(r.st, Exc("TypeError"))
                  [] OTHER ->
                        Ok(PyDict(DictOfPairs(<<>>, [i \in 1..n |->
                                      <<r.tree[2 * i - 1], r.tree[2 * i]>>])), r.st)
      [] IsKind(tree, "Set") ->
            LET r == unastify_each(tree.fields.elts.elts, st)
            IN  CASE r.exc # NoExc -> r
                  [] \E i \in DOMAIN r.tree : ~Hashable(r.tree[i]) ->
                        Fail(r.st, Exc("TypeError"))
                  [] OTHER -> Ok(PySet(SetOfSeq({}, r.tree)), r.st)
      [] IsKind(tree, "Call") ->
            LET dotted_name == attr_ast_to_dotted_name(tree.fields.func)
                callee == lookup_thing(dotted_name.path)
                args == unastify(tree.fields.args, st)
                kws == unastify(tree.fields.keywords, args.st)
            IN  CASE dotted_name.exc # NoExc -> Fail(st, dotted_name.exc)
                  [] callee.exc # NoExc -> Fail(st, callee.exc)
                  [] args.exc # NoExc -> args
                  \* *args wants an iterable
                  [] args.tree.t \notin {"list", "tuple"} ->
                        Fail(args.st, Exc("TypeError"))
                  [] kws.exc # NoExc -> kws
                  [] kws.tree.t \notin {"list", "tuple"} ->
                        Fail(kws.st, Exc("TypeError"))
                  \* for k, v in ...: every item must unpack into two
                  [] \E i \in DOMAIN kws.tree.elts :
                        ~(kws.tree.elts[i].t = "tuple" /\ Len(kws.tree.elts[i].elts) = 2) ->
                        Fail(kws.st, Exc("TypeError"))
                  [] OTHER ->
                        CallThing(callee.thing, args.tree.elts,
                                  DictOfPairs(<<>>, [i \in DOMAIN kws.tree.elts |->
                                      <<kws.tree.elts[i].elts[1], kws.tree.elts[i].elts[2]>>]),
                                  kws.st)
      [] OTHER -> Fail(st, Exc("TypeError"))

-----------------------------------------------------------------------------
(* Lift / lower: the values astify is applied to *)

Pending == [t |-> "pending"]
\* source_to_xcode has not been called
NoImport == importer = Pending
NoTracking == regions = <<>> /\ tracked = Pending
\* no expander has run
NoWalk ==
    /\ quotelevel = <<0>>
    /\ recursive = TRUE
    /\ call = Pending
    /\ outcome = Pending

Atoms == {PyInt(1), PyFloat(1), PyStr("a"), PyBytes("a"), PyBool(TRUE), PyNone}
StartValues ==
    Atoms \cup {Name("x"),
                NodeAt("Name", 3, [id |-> PyStr("x"), ctx |-> Load]),
                ASTLiteral(Name("x")),
                Object(1)}

\* the values that hold v one level down, alone or beside an atom
Wraps(v) ==
    {PyList(<<v>>), PyList(<<v, PyInt(1)>>), PyList(<<PyStr("a"), v>>),
     PyTuple(<<v>>), PyTuple(<<v, PyStr("a")>>), PyTuple(<<PyInt(1), v>>),
     PyDict(<<<<PyStr("a"), v>>>>)}
    \cup (IF Hashable(v)
          THEN {PySet({v}), PyDict(<<<<v, PyInt(1)>>>>)}
               \cup (IF PyEq(v, PyBool(TRUE)) THEN {}
                     ELSE {PySet({v, PyBool(TRUE)}),
                           PyDict(<<<<PyBool(TRUE), PyNone>>, <<v, PyStr("a")>>>>)})
          ELSE {})
    \cup (IF IsNode(v)
          THEN {Node("Expr", [value |-> v]),
                NodeAt("List", 2, [elts |-> PyList(<<v>>), ctx |-> Load]),
                Node("Call", [func |-> v, args |-> PyList(<<>>),
                              keywords |-> PyList(<<Keyword(PyStr("k"), v)>>)])}
          ELSE {})
    \cup (IF IsAtom(v) \/ v.t = "object"
          THEN {NodeAt("Constant", 1, [value |-> v, kind |-> PyNone])}
          ELSE {})

RECURSIVE ValuesAt(_)
ValuesAt(k) ==
    IF k = 0 THEN StartValues
    ELSE LET P == ValuesAt(k - 1) IN P \cup UNION {Wraps(v) : v \in P}

\* built from atoms, lists, tuples, sets, dicts and marker-free tree nodes only
RECURSIVE InDomain(_)
InDomain(x) ==
    CASE IsAtom(x) -> TRUE
      [] x.t \in {"list", "tuple"} -> \A i \in DOMAIN x.elts : InDomain(x.elts[i])
      [] x.t = "set" -> \A m \in x.members : InDomain(m)
      [] x.t = "dict" -> \A i \in DOMAIN x.pairs :
                            InDomain(x.pairs[i][1]) /\ InDomain(x.pairs[i][2])
      [] x.t = "node" -> /\ x.kind \notin QuasiquoteMarkerKinds
                         /\ \A f \in DOMAIN x.fields : InDomain(x.fields[f])
      [] OTHER -> FALSE

\* x without the attributes (lineno) of its nodes: what structural equality sees
RECURSIVE Erase(_)
Erase(x) ==
    CASE x.t \in {"list", "tuple"} ->
            [x EXCEPT !.elts = [i \in DOMAIN x.elts |-> Erase(x.elts[i])]]
      [] x.t = "set" -> [x EXCEPT !.members = {Erase(m) : m \in x.members}]
      [] x.t = "dict" ->
            [x EXCEPT !.pairs = [i \in DOMAIN x.pairs |->
                                    <<Erase(x.pairs[i][1]), Erase(x.pairs[i][2])>>]]
      [] x.t = "node" ->
            [x EXCEPT !.line = 0,
                      !.fields = [f \in DOMAIN x.fields |-> Erase(x.fields[f])]]
      [] OTHER -> x

EmptyState == State0(<<0>>, <<>>, <<>>, {}, <<>>)

NoRegistry ==
    /\ hygienic_registry = <<>>
    /\ hygienic_bindings = <<>>
    /\ previous_gensyms = {}
    /\ returned = {}
    /\ lastop = Pending

LiftInit ==
    /\ val \in ValuesAt(MaxWrap)
    /\ lifted = Pending
    /\ lowered = Pending
    /\ NoRegistry
    /\ NoWalk
    /\ NoImport
    /\ NoTracking

\* lifted = astify(val)
Astify ==
    /\ lifted = Pending
    /\ LET r == astify(val, NoExpander, EmptyState)
       IN  lifted' = [tree |-> r.tree, exc |-> r.exc]
    /\ UNCHANGED <<importVars, trackVars, val, lowered, regVars, walkVars>>

\* lowered = unastify(lifted)
Unastify ==
    /\ lifted # Pending
    /\ lifted.exc = NoExc
    /\ lowered = Pending
    /\ LET r == unastify(lifted.tree, EmptyState)
       IN  lowered' = [tree |-> r.tree, exc |-> r.exc, ran |-> r.st.ran]
    /\ UNCHANGED <<importVars, trackVars, val, lifted, regVars, walkVars>>

LiftNext == Astify \/ Unastify
SpecLift == LiftInit /\ [][LiftNext]_vars

\* C1: for every value built from atoms, lists, tuples, sets, dicts and
\* marker-free tree nodes, unastify(astify(v)) succeeds and equals v: the
\* same atoms and collections, and the same nodes kind by kind and field by
\* field (the attributes of a node, such as lineno, are not fields).
RoundTrip ==
    (InDomain(val) /\ lifted # Pending) =>
        /\ lifted.exc = NoExc
        /\ lowered # Pending => /\ lowered.exc = NoExc
                                /\ Erase(lowered.tree) = Erase(val)

\* the list of the spec's scenario shape, a list that holds a tuple, has made
\* the round trip, and so has a node that carries a lineno
RoundTripWitness ==
    /\ lowered # Pending
    /\ InDomain(val)
    /\ val.t = "list"
    /\ \E i \in DOMAIN val.elts :
          /\ val.elts[i].t = "tuple"
          /\ \E j \in DOMAIN val.elts[i].elts :
                IsNode(val.elts[i].elts[j]) /\ val.elts[i].elts[j].line # 0
    /\ lowered.tree # val
    /\ Erase(lowered.tree) = Erase(val)

\* x is, or holds in a collection or in a field of a tree node, at any depth,
\* a value of a type astify has no case for; what a marker wraps is not
\* looked into
RECURSIVE HoldsForeign(_)
HoldsForeign(x) ==
    CASE x.t = "object" -> TRUE
      [] x.t \in {"list", "tuple"} -> \E i \in DOMAIN x.elts : HoldsForeign(x.elts[i])
      [] x.t = "set" -> \E m \in x.members : HoldsForeign(m)
      [] x.t = "dict" -> \E i \in DOMAIN x.pairs :
                            HoldsForeign(x.pairs[i][1]) \/ HoldsForeign(x.pairs[i][2])
      [] x.t = "node" -> /\ x.kind \notin QuasiquoteMarkerKinds
                         /\ \E f \in DOMAIN x.fields : HoldsForeign(x.fields[f])
      [] OTHER -> FALSE

\* C21: astify of a value that is, or holds at any depth in a collection or
\* in a field of a tree node, a value of another type than the ones it has a
\* case for raises TypeError and returns no tree.
ForeignValueFailsLifting ==
    (lifted # Pending /\ HoldsForeign(val)) =>
        /\ lifted.exc = Exc("TypeError")
        /\ lifted.tree = PyNone

\* a list that holds a tree node with an object in a field, after a value
\* that lifts
ForeignValueWitness ==
    /\ lifted # Pending /\ lifted.exc = Exc("TypeError")
    /\ val.t = "list" /\ Len(val.elts) = 2
    /\ IsAtom(val.elts[1])
    /\ IsNode(val.elts[2]) /\ HoldsForeign(val.elts[2])

-----------------------------------------------------------------------------
(* The capture registries at run time: capture, lookup (quotes.py:57-77)   *)
(* and the macro capture of astify (quotes.py:110-121)                     *)

\* run-time objects: 1 and 2 are equal-valued and distinct
Objects == {PyObj(i, IF i <= 2 THEN PyInt(1) ELSE PyInt(i)) : i \in 1..MaxObjects}
Basenames == {PyStr("x"), PyStr("")}
\* the expander in whose scope macros are captured; qq is an as-import of q
CaptureExpander ==
    [t |-> "expander", id |-> 1, filename |-> "f.py",
     bindings |-> [q |-> Fn("q"), qq |-> Fn("q"), m |-> Fn("m")]]
\* the uuid4() draws offered to one call: none (a fresh one is taken), one, or
\* the same one twice (the second collides for sure)
Draws == {<<>>, <<1>>, <<1, 1>>}
RegState(draws) ==
    State0(<<0>>, hygienic_registry, hygienic_bindings, previous_gensyms, draws)

CaptureInit ==
    /\ val = Pending /\ lifted = Pending /\ lowered = Pending
    /\ NoRegistry
    /\ NoWalk
    /\ NoImport
    /\ NoTracking

\* the key in the tree capture returns: lookup(<key>)
KeyOfLookupCall(tree) == tree.fields.args.elts[1].fields.value
\* the key in the lifted renamed identifier: ast.Name(id=<key>)
KeyOfLiftedName(tree) == tree.fields.keywords.elts[1].fields.value.fields.value

Capture(o, basename, draws) ==
    /\ LET r == capture(o, basename, RegState(draws))
           key == KeyOfLookupCall(r.tree)
       IN  /\ hygienic_registry' = r.st.hr
           /\ previous_gensyms' = r.st.gens
           /\ returned' = returned \cup {[reg |-> "value", key |-> key, obj |-> o]}
           /\ lastop' = [op |-> "capture", reg |-> "value", key |-> key, obj |-> o,
                         before |-> hygienic_registry, exc |-> NoExc]
    /\ UNCHANGED <<importVars, trackVars, liftVars, walkVars, hygienic_bindings>>

\* astify(CaptureLater(Name(name), ...), expander) for a macro name
CaptureMacro(name, draws) ==
    /\ LET x == CaptureLater(Name(name), PyText(Name(name)))
           r == astify(x, CaptureExpander, RegState(draws))
           key == KeyOfLiftedName(r.tree)
           function == CaptureExpander.bindings[name]
       IN  /\ hygienic_bindings' = r.st.hb
           /\ previous_gensyms' = r.st.gens
           /\ returned' = returned \cup {[reg |-> "macro", key |-> key, obj |-> function]}
           /\ lastop' = [op |-> "capture", reg |-> "macro", key |-> key, obj |-> function,
                         before |-> hygienic_bindings, exc |-> NoExc]
    /\ UNCHANGED <<importVars, trackVars, liftVars, walkVars, hygienic_registry>>

\* what a CaptureLater marker wraps: the name of a macro, an as-import of
\* it, the name of another macro, a name that is none, a constant, an
\* attribute of a macro name
MarkerBodies ==
    {Name("q"), Name("qq"), Name("m"), Name("x"), Constant(PyInt(1)),
     Attribute(Name("q"), "a")}

\* astify(CaptureLater(body, unparse(body)), expander), expander given or not
LiftMarker(body, e, draws) ==
    /\ LET x == CaptureLater(body, PyText(body))
           r == astify(x, e, RegState(draws))
       IN  /\ val' = x
           /\ lifted' = [tree |-> r.tree, exc |-> r.exc, expander |-> e,
                         hr0 |-> hygienic_registry, hb0 |-> hygienic_bindings,
                         hr1 |-> r.st.hr, hb1 |-> r.st.hb]
           /\ hygienic_registry' = r.st.hr
           /\ hygienic_bindings' = r.st.hb
           /\ previous_gensyms' = r.st.gens
    /\ UNCHANGED <<importVars, trackVars, walkVars, lowered, returned, lastop>>

Lookup(key) ==
    /\ LET r == lookup(key, RegState(<<>>))
       IN  lastop' = [op |-> "lookup", reg |-> "value", key |-> key, obj |-> r.tree,
                      before |-> hygienic_registry, exc |-> r.exc]
    /\ UNCHANGED <<importVars, trackVars, liftVars, walkVars, hygienic_registry, hygienic_bindings, previous_gensyms,
                   returned>>

CaptureNext ==
    \/ \E o \in Objects, b \in Basenames, d \in Draws : Capture(o, b, d)
    \/ \E name \in DOMAIN CaptureExpander.bindings, d \in Draws : CaptureMacro(name, d)
    \/ \E b \in Basenames \cup {PyStr("q")}, u \in 1..2 : Lookup(PySym(b, u))
SpecCapture == CaptureInit /\ [][CaptureNext]_vars

RegistryOf(name) == IF name = "value" THEN hygienic_registry ELSE hygienic_bindings

\* C2: a capture of an object that is already stored (by identity) returns
\* the key stored for it and adds no entry; a capture of an object not yet
\* stored adds one entry under a key not used before; over all captures, two
\* captures return the same key exactly when they captured the same object,
\* and no two keys of a registry map to the same object.
DedupByIdentity ==
    /\ \A name \in {"value", "macro"} :
          LET reg == RegistryOf(name) IN
          \A i, j \in DOMAIN reg :
             i # j => reg[i][1] # reg[j][1] /\ ~Is(reg[i][2], reg[j][2])
    /\ \A r1, r2 \in returned :
          r1.reg = r2.reg => (r1.key = r2.key <=> Is(r1.obj, r2.obj))
    /\ lastop # Pending /\ lastop.op = "capture" =>
          LET before == lastop.before
              after  == RegistryOf(lastop.reg)
          IN  IF \E i \in DOMAIN before : Is(before[i][2], lastop.obj)
              THEN /\ after = before
                   /\ \E i \in DOMAIN before :
                         before[i][1] = lastop.key /\ Is(before[i][2], lastop.obj)
              ELSE /\ ~DictHas(before, lastop.key)
                   /\ after = Append(before, <<lastop.key, lastop.obj>>)

\* both equal-valued objects are stored, under two keys, and the last capture
\* was of one that was already stored
DedupWitness ==
    /\ lastop # Pending /\ lastop.op = "capture" /\ lastop.reg = "value"
    /\ lastop.before = hygienic_registry
    /\ Len(hygienic_registry) >= 2
    /\ \E i, j \in DOMAIN hygienic_registry :
          /\ i # j
          /\ hygienic_registry[i][2].value = hygienic_registry[j][2].value
    /\ Len(hygienic_bindings) >= 2

\* C10: the value registry only grows.  Every key a capture has returned is
\* still bound, to the object captured under it; a capture leaves the
\* entries that were there as they were; lookup of a key returns the object
\* captured under it, and fails with KeyError when the key was never stored.
RegistryOnlyGrows ==
    /\ \A r \in returned :
          r.reg = "value" => /\ DictHas(hygienic_registry, r.key)
                             /\ Is(DictGet(hygienic_registry, r.key), r.obj)
    /\ lastop # Pending /\ lastop.reg = "value" =>
          /\ Len(lastop.before) <= Len(hygienic_registry)
          /\ \A i \in DOMAIN lastop.before : hygienic_registry[i] = lastop.before[i]
    /\ lastop # Pending /\ lastop.op = "lookup" =>
          IF \E r \in returned : r.reg = "value" /\ r.key = lastop.key
          THEN /\ lastop.exc = NoExc
               /\ \E r \in returned :
                     r.reg = "value" /\ r.key = lastop.key /\ Is(r.obj, lastop.obj)
          ELSE lastop.exc = Exc("KeyError")

\* a lookup has found the first of two stored objects
RegistryWitness ==
    /\ lastop # Pending /\ lastop.op = "lookup" /\ lastop.exc = NoExc
    /\ Len(hygienic_registry) >= 2
    /\ Is(lastop.obj, hygienic_registry[1][2])

\* markers are lifted, with and without an expander, between captures of
\* values
MarkerNext ==
    \/ \E body \in MarkerBodies, e \in {NoExpander, CaptureExpander}, d \in Draws :
          LiftMarker(body, e, d)
    \/ \E o \in Objects, d \in Draws : Capture(o, PyStr("x"), d)
SpecMarker == CaptureInit /\ [][MarkerNext]_vars

\* the marker lifted last wraps the bare name of a macro of the expander given
WrapsMacroName ==
    /\ lifted.expander # NoExpander
    /\ IsKind(val.fields.body, "Name")
    /\ val.fields.body.fields.id.s \in DOMAIN lifted.expander.bindings

\* C19: astify of a CaptureLater marker adds to the macro registry only when
\* an expander is given and the marker wraps the bare name of one of its
\* macros: the tree is then the lifted Name of a key under which the macro
\* registry holds that macro, the entries it had are kept, and the value
\* registry is as it was.  In every other case the tree is a call of capture
\* on the wrapped tree and the name of the marker, and both registries are
\* as they were.
MarkerLiftTouchesMacrosOnly ==
    lifted # Pending =>
        /\ lifted.exc = NoExc
        /\ lifted.hr1 = lifted.hr0
        /\ IF WrapsMacroName
           THEN LET key == KeyOfLiftedName(lifted.tree)
                IN  /\ lifted.tree = Call(Attribute(mcpy_quotes_attr("ast"), "Name"), <<>>,
                                          <<Keyword(PyStr("id"), Constant(key))>>)
                    /\ DictHas(lifted.hb1, key)
                    /\ DictGet(lifted.hb1, key) =
                          lifted.expander.bindings[val.fields.body.fields.id.s]
                    /\ SubSeq(lifted.hb1, 1, Len(lifted.hb0)) = lifted.hb0
           ELSE /\ lifted.tree = Call(mcpy_quotes_attr("capture"),
                                      <<val.fields.body, Constant(val.fields.name)>>, <<>>)
                /\ lifted.hb1 = lifted.hb0

\* the name of a macro lifted when the macro registry held another macro:
\* one entry was added
MarkerLiftWitness ==
    /\ lifted # Pending /\ WrapsMacroName
    /\ Len(lifted.hb0) >= 1
    /\ Len(lifted.hb1) = Len(lifted.hb0) + 1
    /\ lifted.hr0 # <<>>

-----------------------------------------------------------------------------
(* NestingLevelTracker (utilities.py:72-104) *)

Level(st) == st.stack[Len(st.stack)]

\* the value is pushed whatever its sign
enter_level_unchecked(value, st) ==
    IF value.t # "int" THEN Fail(st, Exc("TypeError"))
    ELSE Ok(PyNone, [st EXCEPT !.stack = Append(@, value.i), !.pushes = @ + 1])

\* set_to(value), up to and including __enter__: the checks, then the push
enter_level(value, st) ==
    IF value.t # "int" THEN Fail(st, Exc("TypeError"))
    ELSE IF value.i < 0 THEN Fail(st, Exc("ValueError"))
    ELSE Ok(PyNone, [st EXCEPT !.stack = Append(@, value.i), !.pushes = @ + 1])

\* the level is set to what it is
changed_by_nothing(delta, st) == enter_level(PyInt(Level(st)), st)
\* utilities.py:102-104, set_to(self.value + delta): the sum of an int and a
\* float is a float, and + raises TypeError for an operand that is no number
changed_by(delta, st) ==
    IF delta.t = "int" THEN enter_level(PyInt(Level(st) + delta.i), st)
    ELSE IF delta.t = "float" THEN enter_level(PyFloat(Level(st) + delta.f), st)
    ELSE Fail(st, Exc("TypeError"))

\* the state in which the body of the with statement of the operator op
\* starts, the level it runs at noted in the trace
InBody(op, st, entered) ==
    Log(entered.st, [ev |-> "body", op |-> op, entry |-> Level(st),
                     level |-> Level(entered.st)])

\* the stack is popped on a normal exit only
leave_level_unless_raised(r) ==
    IF Raised(r) THEN r ELSE [r EXCEPT !.st.stack = SubSeq(@, 1, Len(@) - 1)]

\* __exit__ of set_to after the body ended with result r: finally pop, assert
leave_level(r) ==
    IF Len(r.st.stack) <= 1
    THEN Fail([r.st EXCEPT !.stack = <<>>], Exc("AssertionError"))
    ELSE [r EXCEPT !.st.stack = SubSeq(@, 1, Len(@) - 1)]

-----------------------------------------------------------------------------
(* Postprocessing of an expansion *)

HasLocation(kind) ==
    kind \in {"Name", "Constant", "Attribute", "Subscript", "BinOp", "Call",
              "List", "Tuple", "Set", "Dict", "Expr", "Assign", "With", "ImportFrom",
              "Pass"}

\* ast.fix_missing_locations: a node without lineno takes its parent's
\* (<<>> \o f and f @@ NoFields are the tuple and the record of the function f,
\* each element evaluated once)
RECURSIVE FixLocations(_, _)
FixLocations(x, line) ==
    CASE x.t = "list" ->
            [x EXCEPT !.elts = <<>> \o [i \in DOMAIN @ |-> FixLocations(@[i], line)]]
      [] x.t = "node" /\ HasLocation(x.kind) ->
            LET here == IF x.line = 0 THEN line ELSE x.line
            IN  [x EXCEPT !.line = here,
                          !.fields = [f \in DOMAIN @ |-> FixLocations(@[f], here)]
                                     @@ NoFields]
      [] x.t = "node" /\ ~HasLocation(x.kind) ->
            [x EXCEPT !.fields = [f \in DOMAIN @ |-> FixLocations(@[f], line)]
                                 @@ NoFields]
      [] OTHER -> x
fix_missing_locations(x) == FixLocations(x, 1)

\* fix_missing_ctx: a node that takes a ctx and has none gets one, Store for
\* the target of an assignment and Load elsewhere
TakesCtx(kind) == \E i \in DOMAIN FieldsOf(kind) : FieldsOf(kind)[i] = "ctx"
RECURSIVE FixCtx(_, _)
FixCtx(x, ctx) ==
    CASE x.t = "list" ->
            [x EXCEPT !.elts = <<>> \o [i \in DOMAIN @ |-> FixCtx(@[i], ctx)]]
      [] x.t = "node" ->
            [x EXCEPT !.fields =
                [f \in DOMAIN @ |->
                    FixCtx(@[f], IF x.kind = "Assign" /\ f = "targets"
                                 THEN "Store" ELSE "Load")]
                @@ (IF TakesCtx(x.kind) THEN "ctx" :> Node(ctx, NoFields) ELSE NoFields)]
      [] OTHER -> x
fix_missing_ctx(x) == FixCtx(x, "Load")

-----------------------------------------------------------------------------
(* get_markers (markers.py:44-53) *)

\* what a walk from x visits next: the fields of _fields, and the nodes
\* in the lists among them
ChildrenOf(x) ==
    CASE x.t = "list" -> SelectSeq(x.elts, LAMBDA c : IsNode(c))
      [] x.t = "node" ->
            SelectSeq(<<>> \o [i \in DOMAIN IterFields(x) |-> x.fields[IterFields(x)[i]]],
                      LAMBDA c : c.t \in {"node", "list"})
      [] OTHER -> <<>>

\* the collector visits x, then what is below its children, in order: the
\* markers found in x and below its first k children
RECURSIVE get_markers(_, _), MarkersTo(_, _, _)
MarkersTo(x, k, kinds) ==
    IF k = 0 THEN (IF IsNode(x) /\ x.kind \in kinds THEN <<x>> ELSE <<>>)
    ELSE MarkersTo(x, k - 1, kinds)
         \o MarkersTo(ChildrenOf(x)[k], Len(ChildrenOf(ChildrenOf(x)[k])), kinds)
get_markers(x, kinds) == MarkersTo(x, Len(ChildrenOf(x)), kinds)

-----------------------------------------------------------------------------
(* BaseMacroExpander (visitors.py:14-97) and ast.NodeTransformer             *)
(*                                                                         *)
(* An expander is a record [id, filename, bindings]; bindings maps a macro   *)
(* name to the macro function bound to it.  The concrete expander that       *)
(* detects invocation sites is not part of the sources: the one site form   *)
(* modelled is the expression form  macroname[tree]  (visit_Subscript).      *)

Expander(id, bindings) ==
    [t |-> "expander", id |-> id, filename |-> "f.py", bindings |-> bindings]
NoBindings == [k \in {} |-> PyNone]
NoKw == [k \in {} |-> PyNone]

\* an invocation site as parsed from source text: located, with ctx
Site(macroname, tree) ==
    NodeAt("Subscript", 1,
           [value |-> NodeAt("Name", 1, [id |-> PyStr(macroname), ctx |-> Load]),
            slice |-> tree, ctx |-> Load])
\* an invocation site as a macro builds it: no location, no ctx
NewSite(macroname, tree) ==
    Node("Subscript", [value |-> Name(macroname), slice |-> tree])

\* every name passes for a macro
is_macro_any_name(e, name) == TRUE
\* visitors.py:92-93
is_macro(e, name) == name \in DOMAIN e.bindings

IsSite(e, tree) ==
    /\ IsKind(tree, "Subscript")
    /\ {"value", "slice"} \subseteq DOMAIN tree.fields
    /\ IsKind(tree.fields.value, "Name")
    /\ tree.fields.value.fields.id.t = "str"
    /\ is_macro(e, tree.fields.value.fields.id.s)

RECURSIVE HasSite(_, _), NodeCount(_), NodeCountTo(_, _)
\* some node that a walk from x visits is an invocation site of e
HasSite(e, x) ==
    \/ IsSite(e, x)
    \/ \E i \in DOMAIN ChildrenOf(x) : HasSite(e, ChildrenOf(x)[i])
\* how many nodes a walk from x visits: x if it is one, and those below its
\* first k children
NodeCountTo(x, k) ==
    IF k = 0 THEN (IF IsNode(x) THEN 1 ELSE 0)
    ELSE NodeCountTo(x, k - 1)
         + NodeCountTo(ChildrenOf(x)[k], Len(ChildrenOf(ChildrenOf(x)[k])))
NodeCount(x) == NodeCountTo(x, Len(ChildrenOf(x)))

\* f'use site was at {self.filepath}:{lineno}: {original_code}'
UseSite(file, line, code) == [t |-> "usesite", file |-> file, line |-> line, code |-> code]

\* the mode is read as something else than the flag: always recursive
revisits_always(e, st) == TRUE
\* visitors.py:86
revisits(e, st) == st.rec[e.id]

\* the wrapper of a nested failure is kept as the cause
root_cause_keeps_wrapper(err) == err
\* visitors.py:65-66
root_cause(err) == IF err.type = "MacroExpansionError" THEN err.cause ELSE err

\* the flag is put back on a normal return only
restore_recursive_unless_raised(r, e, oldrec) ==
    IF Raised(r) THEN r ELSE [r EXCEPT !.st.rec[e.id] = oldrec]
\* visitors.py:40-41
restore_recursive(r, e, oldrec) == [r EXCEPT !.st.rec[e.id] = oldrec]

\* the level is not looked at
level_never_too_low(st) == FALSE
\* quotes.py:290, 306, 315, 324, 342
level_too_low(st) == Level(st) < 1

QuoteOps == {"q", "u", "n", "a", "s", "h"}
UnquoteOps == QuoteOps \ {"q"}

\* the whole table is copied
AllBindings(bindings) == bindings
\* quotes.py:262, {k: v for k, v in expander.bindings.items() if v in (q, u, n, a, s, h)}
QuoteBindings(bindings) ==
    [k \in {k \in DOMAIN bindings : bindings[k].id \in QuoteOps} |-> bindings[k]]

\* what a call of kw['expand_macros'] by a macro did, for the trace
Expanded(e, tree, st, r) ==
    [r EXCEPT !.st = Log(@, [ev |-> "expand_macros", e |-> e.id, arg |-> tree,
                             recursive |-> st.rec[e.id], start |-> Len(st.trace),
                             result |-> r.tree, exc |-> r.exc])]

\* what a call of a quasiquote operator did, for the trace
Observed(op, syntax, st, r) ==
    [r EXCEPT !.st = Log(@, [ev |-> "op", op |-> op, syntax |-> syntax,
                             level |-> Level(st), start |-> Len(st.trace),
                             stack0 |-> st.stack, stack1 |-> r.st.stack,
                             pushes0 |-> st.pushes, pushes1 |-> r.st.pushes,
                             exc |-> r.exc, tree |-> r.tree,
                             markers |-> get_markers(r.tree, QuasiquoteMarkerKinds)])]

\* quotes.py:299-309
n(tree, syntax, st) ==
    IF syntax # "expr" THEN Fail(st, Exc("SyntaxError"))
    ELSE IF level_too_low(st) THEN Fail(st, Exc("SyntaxError"))
    ELSE LET entered == changed_by(PyInt(-1), st)
             wrapped(lifted_name) ==
                 IF lifted_name.exc # NoExc THEN lifted_name
                 ELSE Ok(ASTLiteral(lifted_name.tree), lifted_name.st)
         IN  IF entered.exc # NoExc THEN entered
             ELSE leave_level(wrapped(astify(Node("Name", [id |-> ASTLiteral(tree)]),
                                             NoExpander, InBody("n", st, entered))))

\* quotes.py:311-318
a(tree, syntax, st) ==
    IF syntax # "expr" THEN Fail(st, Exc("SyntaxError"))
    ELSE IF level_too_low(st) THEN Fail(st, Exc("SyntaxError"))
    ELSE LET entered == changed_by(PyInt(-1), st)
         IN  IF entered.exc # NoExc THEN entered
             ELSE leave_level(Ok(ASTLiteral(tree), InBody("a", st, entered)))

\* quotes.py:320-329
s(tree, syntax, st) ==
    IF syntax # "expr" THEN Fail(st, Exc("SyntaxError"))
    ELSE IF level_too_low(st) THEN Fail(st, Exc("SyntaxError"))
    ELSE Ok(ASTLiteral(Call(Node("Attribute", [value |-> mcpy_quotes_attr("ast"),
                                               attr |-> PyStr("List")]),
                            <<>>, <<Keyword(PyStr("elts"), tree)>>)), st)

RECURSIVE visit(_, _, _), node_visit(_, _, _), generic_visit(_, _, _, _),
          visit_list(_, _, _), visit_once(_, _, _), visit_recursively(_, _, _),
          expand(_, _, _, _, _, _, _), visit_expansion(_, _, _, _),
          visit_each(_, _, _, _), apply_macro(_, _, _, _, _, _),
          expand_macros(_, _, _), expand_quasiquotes(_, _, _),
          unquote_expand(_, _, _), q(_, _, _, _, _), q_body(_, _, _, _, _),
          u(_, _, _, _), h(_, _, _, _)

\* every call walks, whatever the table holds
visit_always_walks(e, tree, st) == node_visit(e, tree, st)

\* visitors.py:24-29
visit(e, tree, st) ==
    IF DOMAIN e.bindings = {} THEN Ok(tree, st) ELSE node_visit(e, tree, st)

\* NodeTransformer.visit: dispatch on the class of the node.  A subtree
\* without an invocation site comes back from generic_visit as it went in,
\* every node of it visited: that case is answered without the descent.
node_visit(e, tree, st) ==
    CASE ~IsNode(tree) -> Fail(st, Exc("AttributeError"))
      [] IsSite(e, tree) ->
            expand(e, "expr", tree, tree.fields.value.fields.id.s,
                   tree.fields.slice, NoKw, [st EXCEPT !.walked = @ + 1])
      [] IsNode(tree) /\ ~HasSite(e, tree) ->
            Ok(tree, [st EXCEPT !.walked = @ + NodeCount(tree)])
      [] OTHER ->
            generic_visit(e, tree, Len(IterFields(tree)), [st EXCEPT !.walked = @ + 1])

\* NodeTransformer.generic_visit after the first k fields of the node: the
\* loop over iter_fields(node), field k done on what the fields before it left
generic_visit(e, node, k, st) ==
    LET done == generic_visit(e, node, k - 1, st)
        f == IterFields(node)[k]
        old == node.fields[f]
        \* setattr / delattr with the new value r of the field
        set_field(r) ==
            IF r.exc # NoExc THEN r
            ELSE IF old.t = "list"
            THEN Ok([done.tree EXCEPT !.fields[f] = PyList(r.tree)], r.st)
            ELSE IF r.tree = PyNone
            THEN Ok([done.tree EXCEPT !.fields = [g \in DOMAIN @ \ {f} |-> @[g]]
                                                 @@ NoFields], r.st)
            ELSE Ok([done.tree EXCEPT !.fields[f] = r.tree], r.st)
    IN  CASE k = 0 -> Ok(node, st)
          [] k > 0 /\ done.exc # NoExc -> done
          [] k > 0 /\ done.exc = NoExc /\ old.t \notin {"list", "node"} -> done
          [] OTHER ->
                set_field(IF old.t = "list" THEN visit_list(e, old.elts, done.st)
                          ELSE visit(e, old, done.st))

\* the list branch of generic_visit: None is dropped, a list is spliced in;
\* the elements before the last are done first, then the last
visit_list(e, xs, st) ==
    LET front == visit_list(e, SubSeq(xs, 1, Len(xs) - 1), st)
        x == xs[Len(xs)]
        \* new_values.append / extend with the value v the visit returned
        add(v) ==
            IF v.exc # NoExc THEN v
            ELSE IF ~IsNode(x) \/ IsNode(v.tree)
            THEN Ok(Append(front.tree, v.tree), v.st)
            ELSE IF v.tree = PyNone THEN Ok(front.tree, v.st)
            ELSE IF v.tree.t \in {"list", "tuple"}
            THEN Ok(front.tree \o v.tree.elts, v.st)
            ELSE Fail(v.st, Exc("TypeError"))
    IN  CASE xs = <<>> -> Ok(<<>>, st)
          [] xs # <<>> /\ front.exc # NoExc -> front
          [] OTHER -> add(IF IsNode(x) THEN visit(e, x, front.st) ELSE Ok(x, front.st))

\* visitors.py:31-41
visit_once(e, tree, st) ==
    LET oldrec == st.rec[e.id]
        logged(r) ==
            [r EXCEPT !.st = Log(@, [ev |-> "visit_once", e |-> e.id,
                                     start |-> Len(st.trace), before |-> oldrec,
                                     after |-> r.st.rec[e.id], exc |-> r.exc])]
    IN  logged(restore_recursive(visit(e, tree, [st EXCEPT !.rec[e.id] = FALSE]),
                                 e, oldrec))

\* expander.visit_recursively: the mirror image of visit_once
visit_recursively(e, tree, st) ==
    [visit(e, tree, [st EXCEPT !.rec[e.id] = TRUE]) EXCEPT !.st.rec[e.id] = st.rec[e.id]]

\* visitors.py:43-71
expand(e, syntax, target, macroname, tree, kw, st) ==
    LET macro == e.bindings[macroname]
        original_code == PyText(target)
        \* r: what the macro returned or raised
        applied(r) ==
            IF r.exc # NoExc
            THEN LET err == root_cause(r.exc)
                     out == ExcFrom("MacroExpansionError",
                                    UseSite(e.filename, target.line, original_code), err)
                 IN  Fail(Log(r.st, [ev |-> "except", e |-> e.id, line |-> target.line,
                                     code |-> original_code, caught |-> r.exc,
                                     raised |-> out]),
                          out)
            ELSE visit_expansion(e, r.tree, target, r.st)
    IN  \* visitors.py:50, self.bindings[macroname] outside the try statement
        IF macroname \notin DOMAIN e.bindings THEN Fail(st, Exc("KeyError"))
        ELSE applied(apply_macro(macro, tree, syntax, e, kw,
                                 Log(st, [ev |-> "apply", e |-> e.id, name |-> macroname,
                                          macro |-> macro.id])))

\* map(fix_missing_locations), map(fix_missing_ctx), map(self.visit), pulled
\* one element at a time by list(): the elements before the last, then the last
visit_each(e, xs, revisit, st) ==
    LET front == visit_each(e, SubSeq(xs, 1, Len(xs) - 1), revisit, st)
        x == xs[Len(xs)]
        fixed == fix_missing_ctx(fix_missing_locations(x))
        add(v) == IF v.exc # NoExc THEN v ELSE Ok(Append(front.tree, v.tree), v.st)
    IN  CASE xs = <<>> -> Ok(<<>>, st)
          [] xs # <<>> /\ front.exc # NoExc -> front
          [] xs # <<>> /\ front.exc = NoExc /\ ~IsNode(x) ->
                Fail(front.st, Exc("AttributeError"))
          [] OTHER -> add(IF revisit THEN visit(e, fixed, front.st)
                          ELSE Ok(fixed, front.st))

\* visitors.py:73-90
visit_expansion(e, expansion, target, st) ==
    LET is_node == IsNode(expansion)
        xs == IF is_node THEN <<expansion>> ELSE expansion.elts
        revisit == revisits(e, st)
        \* list(expansion).pop() if is_node else list(expansion)
        listed(r) ==
            IF r.exc # NoExc THEN r
            ELSE Ok(IF is_node THEN r.tree[Len(r.tree)] ELSE PyList(r.tree),
                    Log(r.st, [ev |-> "expansion", e |-> e.id, recursive |-> st.rec[e.id],
                               fixed |-> TupleOfFcn([i \in DOMAIN xs |->
                                   fix_missing_ctx(fix_missing_locations(xs[i]))]),
                               result |-> r.tree]))
    IN  CASE expansion = PyNone -> Ok(PyNone, st)
          [] expansion # PyNone /\ ~is_node /\ expansion.t \notin {"list", "tuple"} ->
                Fail(st, Exc("TypeError"))
          [] OTHER -> listed(visit_each(e, xs, revisit, st))

\* visitors.py:95-97, macro(tree, **kw): the quasiquote operators and the
\* macros that the expanders of this model are given
apply_macro(macro, tree, syntax, e, kw, st) ==
    CASE macro.id = "q" -> Observed("q", syntax, st, q(tree, syntax, e, kw, st))
      [] macro.id = "u" -> Observed("u", syntax, st, u(tree, syntax, e, st))
      [] macro.id = "n" -> Observed("n", syntax, st, n(tree, syntax, st))
      [] macro.id = "a" -> Observed("a", syntax, st, a(tree, syntax, st))
      [] macro.id = "s" -> Observed("s", syntax, st, s(tree, syntax, st))
      [] macro.id = "h" -> Observed("h", syntax, st, h(tree, syntax, e, st))
      \* returns a new invocation of m2 (m3) around its argument
      [] macro.id = "wrap2" -> Ok(NewSite("m2", tree), st)
      [] macro.id = "wrap3" -> Ok(NewSite("m3", tree), st)
      \* raises
      [] macro.id = "raise" -> Fail(st, ExcFrom("ValueError", PyText(tree), NoExc))
      [] macro.id = "raiseMEE" ->
            Fail(st, ExcFrom("MacroExpansionError", PyText(tree), NoExc))
      \* return expand_once(tree), return expand_macros(tree)
      [] macro.id = "once" -> visit_once(e, tree, st)
      [] macro.id = "full" -> Expanded(e, tree, st, visit(e, tree, st))
      \* return None: the invocation is deleted
      [] macro.id = "none" -> Ok(PyNone, st)
      \* return [tree, copy.deepcopy(tree)]
      [] macro.id = "pair" -> Ok(PyList(<<tree, tree>>), st)
      \* returns a marker of its own around its argument and never takes it out
      [] macro.id = "leak" -> Ok(Node("ASTMarker", [body |-> tree]), st)
      \* returns its argument
      [] OTHER -> Ok(tree, st)

-----------------------------------------------------------------------------
(* The quasiquote operators that expand their argument (quotes.py:249-347)   *)

\* expand_macros(tree, bindings, filename): a new expander instance walks the
\* tree; a statement suite is walked item by item and flattened
expand_macros(p, tree, st) ==
    IF tree = PyNone THEN Ok(PyNone, st)
    ELSE IF tree.t = "list" THEN
        LET flattened(r) ==
                IF r.exc # NoExc THEN r
                ELSE Ok(IF r.tree = <<>> THEN PyNone ELSE PyList(r.tree), r.st)
        IN  flattened(visit_list(p, tree.elts, st))
    ELSE visit(p, tree, st)

\* quotes.py:256-263
expand_quasiquotes(tree, e, st) ==
    LET bindings == QuoteBindings(e.bindings)
        p == Expander(Len(st.rec) + 1, bindings)
    IN  expand_macros(p, tree,
                      Log([st EXCEPT !.rec = Append(@, TRUE)],
                          [ev |-> "quasi", e |-> p.id, main |-> e.bindings,
                           private |-> p.bindings]))

\* quotes.py:249-254.  The result of the walk is bound to a local name and
\* dropped; what the caller goes on with is the tree object it passed, as the
\* walk left it: a root that is no invocation site was walked in place and is
\* the result, a root that is one was replaced, not changed, so it is as before.
unquote_expand(tree, e, st) ==
    LET replaced == IF Level(st) = 0 THEN IsSite(e, tree)
                    ELSE /\ IsSite(e, tree)
                         /\ e.bindings[tree.fields.value.fields.id.s].id \in QuoteOps
        \* r is dropped; the caller's tree is what it was, or what the walk made of it
        dropped(r) ==
            IF r.exc # NoExc THEN r
            ELSE Ok(IF replaced THEN tree ELSE r.tree,
                    Log(r.st, [ev |-> "unquote_expand", level |-> Level(st), arg |-> tree,
                               bindings |-> e.bindings, result |-> r.tree]))
    IN  dropped(IF Level(st) = 0 THEN visit_recursively(e, tree, st)
                ELSE expand_quasiquotes(tree, e, st))

\* quotes.py:270-281, the body of the with statement
q_body(tree, syntax, e, kw, st) ==
    LET \* quotes.py:272-281
        checked(lifted_tree) ==
            IF lifted_tree.exc # NoExc THEN lifted_tree
            ELSE IF get_markers(lifted_tree.tree, QuasiquoteMarkerKinds) # <<>>
            THEN Fail(lifted_tree.st, Exc("AssertionError"))
            ELSE IF syntax = "block" THEN
                IF "optional_vars" \notin DOMAIN kw THEN Fail(lifted_tree.st, Exc("KeyError"))
                ELSE IF ~IsKind(kw.optional_vars, "Name")
                THEN Fail(lifted_tree.st, Exc("SyntaxError"))
                ELSE Ok(Node("Assign", [targets |-> PyList(<<kw.optional_vars>>),
                                        value |-> lifted_tree.tree]), lifted_tree.st)
            ELSE lifted_tree
        \* quotes.py:271
        astified(expanded) ==
            IF expanded.exc # NoExc THEN expanded
            ELSE checked(astify(expanded.tree, e, expanded.st))
    IN  astified(expand_quasiquotes(tree, e, st))

\* quotes.py:265-281
q(tree, syntax, e, kw, st) ==
    IF syntax \notin {"expr", "block"} THEN Fail(st, Exc("SyntaxError"))
    ELSE LET entered == changed_by(PyInt(1), st)
         IN  IF entered.exc # NoExc THEN entered
             ELSE leave_level(q_body(tree, syntax, e, kw, InBody("q", st, entered)))

\* quotes.py:283-297
u(tree, syntax, e, st) ==
    IF syntax # "expr" THEN Fail(st, Exc("SyntaxError"))
    ELSE IF level_too_low(st) THEN Fail(st, Exc("SyntaxError"))
    ELSE LET entered == changed_by(PyInt(-1), st)
             wrapped(r) ==
                 IF r.exc # NoExc THEN r
                 ELSE Ok(ASTLiteral(Call(mcpy_quotes_attr("astify"), <<r.tree>>, <<>>)),
                         r.st)
         IN  IF entered.exc # NoExc THEN entered
             ELSE leave_level(wrapped(unquote_expand(tree, e, InBody("u", st, entered))))

\* quotes.py:331-347
h(tree, syntax, e, st) ==
    IF syntax # "expr" THEN Fail(st, Exc("SyntaxError"))
    ELSE IF level_too_low(st) THEN Fail(st, Exc("SyntaxError"))
    ELSE LET entered == changed_by(PyInt(-1), st)
             name == PyText(tree)
             wrapped(r) == IF r.exc # NoExc THEN r ELSE Ok(CaptureLater(r.tree, name), r.st)
         IN  IF entered.exc # NoExc THEN entered
             ELSE leave_level(wrapped(unquote_expand(tree, e, InBody("h", st, entered))))

-----------------------------------------------------------------------------
(* The calls made on the main expander, and their outcome                   *)

\* the process state a call starts from
WalkState ==
    [State0(quotelevel, hygienic_registry, hygienic_bindings, previous_gensyms, <<>>)
        EXCEPT !.rec = <<recursive>>]

TheCall(op, bindings, name, syntax, tree, kw) ==
    [op |-> op, bindings |-> bindings, name |-> name, syntax |-> syntax,
     tree |-> tree, kw |-> kw]

\* the call c is made and ends with the result r
Finish(c, r) ==
    /\ call = Pending
    /\ call' = c
    /\ outcome' = [tree |-> r.tree, exc |-> r.exc, trace |-> r.st.trace,
                   walked |-> r.st.walked]
    /\ quotelevel' = r.st.stack
    /\ recursive' = r.st.rec[1]
    /\ hygienic_registry' = r.st.hr
    /\ hygienic_bindings' = r.st.hb
    /\ previous_gensyms' = r.st.gens
    /\ UNCHANGED <<importVars, trackVars, liftVars, returned, lastop>>

\* the caller takes the outcome; the process state stays for the next call
Return ==
    /\ call # Pending
    /\ call' = Pending
    /\ outcome' = Pending
    /\ UNCHANGED <<importVars, trackVars, liftVars, regVars, quotelevel, recursive>>

WalkInit ==
    /\ val = Pending /\ lifted = Pending /\ lowered = Pending
    /\ NoRegistry
    /\ NoWalk
    /\ NoImport
    /\ NoTracking

Events == IF outcome = Pending THEN {} ELSE DOMAIN outcome.trace
Event(i) == outcome.trace[i]
IsOp(i, ops) == Event(i).ev = "op" /\ Event(i).op \in ops
IsEv(i, ev) == Event(i).ev = ev

-----------------------------------------------------------------------------
(* The quasiquote operators under the main expander                         *)

\* how deep invocation sites nest in a quoted expression
MaxNest == 3

\* q, u, n, a, s, h under their own names and a macro m that returns its
\* argument
QuoteExpander ==
    Expander(1, [k \in QuoteOps \cup {"m"} |-> IF k = "m" THEN Fn("ident") ELSE Fn(k)])

LeafX == NodeAt("Name", 1, [id |-> PyStr("x"), ctx |-> Load])
LeafY == NodeAt("Name", 1, [id |-> PyStr("y"), ctx |-> Load])
\* a constant that a macro put into the tree and that astify cannot lift
LeafObject == NodeAt("Constant", 1, [value |-> Object(1)])

\* the level at which the argument of the operator nm, used at level lv, is
\* expanded: inside the with statement of q, u and h, after it for n, a, s
LevelIn(nm, lv) ==
    IF nm = "q" THEN lv + 1
    ELSE IF nm \in {"u", "h"} /\ lv >= 1 THEN lv - 1
    ELSE lv

\* Invocation sites nested k deep in one another around a leaf, met at level
\* lv.  A q inside a q stands directly around a leaf: lifting a lifted tree
\* triples its depth, and the recursion of the evaluator over a deeper one
\* does not fit its stack.
RECURSIVE ChainsAt(_, _)
ChainsAt(k, lv) ==
    IF k = 0 THEN {LeafX, LeafObject}
    ELSE ChainsAt(k - 1, lv)
         \cup UNION {{Site(nm, c) : c \in ChainsAt(k - 1, LevelIn(nm, lv))} :
                        nm \in {m \in DOMAIN QuoteExpander.bindings :
                                   m = "q" => (lv = 0 \/ k = 1)}}
Chains(k) == ChainsAt(k, 0)

TupleOf(c) == NodeAt("Tuple", 1, [elts |-> PyList(<<c, LeafY>>), ctx |-> Load])

\* q[q[u[x]]]: a quote in a quote, the unquote in the inner one
NestedQuote == Site("q", Site("q", Site("u", LeafX)))

\* The expressions handed to the expander.  A tuple display stands at the
\* root or is the argument of the one or two outermost operators: no object
\* below an invocation site whose replacement unquote_expand drops is ever
\* changed in place, so the value semantics of this model is the semantics of
\* the code on these trees.
QuoteTrees ==
    Chains(MaxNest)
    \cup {TupleOf(c) : c \in Chains(MaxNest - 2)}
    \cup UNION {{Site(nm, TupleOf(c)) : c \in ChainsAt(MaxNest - 2, LevelIn(nm, 0))} :
                   nm \in DOMAIN QuoteExpander.bindings}
    \cup UNION {{Site("q", Site(nm, TupleOf(c))) :
                    c \in ChainsAt(MaxNest - 2, LevelIn(nm, 1))} :
                   nm \in DOMAIN QuoteExpander.bindings \ {"q"}}
    \cup {NestedQuote}

\* the suites of a with statement
QuoteSuites ==
    {PyList(<<>>)}
    \cup {PyList(<<NodeAt("Expr", 1, [value |-> c])>>) : c \in ChainsAt(1, 1)}
\* `as` targets: none, a name, a tuple
QuoteTargets ==
    {NoKw, [optional_vars |-> LeafY], [optional_vars |-> TupleOf(LeafX)]}

\* q and u imported under other names; q and m name macros that return
\* their argument
RenamedExpander ==
    Expander(1, [quote |-> Fn("q"), unq |-> Fn("u"), q |-> Fn("ident"), m |-> Fn("ident")])
RenamedSites == {LeafX} \cup {Site(nm, LeafX) : nm \in DOMAIN RenamedExpander.bindings}
\* quote[...] around one or two invocations
RenamedTrees ==
    {Site("quote", c) : c \in RenamedSites}
    \cup {Site("quote", Site(nm, c)) : nm \in {"unq", "q", "m"}, c \in RenamedSites}

\* the main expander walks an expression
ExpandExpr(tree) ==
    Finish(TheCall("visit", QuoteExpander.bindings, "", "expr", tree, NoKw),
           visit(QuoteExpander, tree, WalkState))

\* the same with the operators imported under other names
ExpandRenamed(tree) ==
    Finish(TheCall("visit", RenamedExpander.bindings, "", "expr", tree, NoKw),
           visit(RenamedExpander, tree, WalkState))

\* the main expander found an operator used as a block or decorator macro
InvokeOp(name, syntax, tree, kw) ==
    Finish(TheCall("expand", QuoteExpander.bindings, name, syntax, tree, kw),
           expand(QuoteExpander, syntax, NodeAt("With", 1, [body |-> tree]), name,
                  tree, kw, WalkState))

QuoteNext ==
    \/ \E tree \in QuoteTrees : ExpandExpr(tree)
    \/ \E tree \in RenamedTrees : ExpandRenamed(tree)
    \/ \E name \in QuoteOps, syntax \in {"block", "decorator"},
          tree \in QuoteSuites, kw \in QuoteTargets : InvokeOp(name, syntax, tree, kw)
    \/ Return

SpecQuote == WalkInit /\ [][QuoteNext]_vars

\* C3: every call of u, n, a, s or h made while the level is 0 raises a
\* SyntaxError, and has then pushed nothing on the level stack, left the stack
\* as it found it, and returned no marker.
UnquoteAtLevelZeroFails ==
    \A i \in Events :
        (IsOp(i, UnquoteOps) /\ Event(i).level = 0) =>
            /\ Event(i).exc # NoExc
            /\ Event(i).exc.type = "SyntaxError"
            /\ Event(i).pushes1 = Event(i).pushes0
            /\ Event(i).stack1 = Event(i).stack0
            /\ Event(i).markers = <<>>

\* an unquote met at level 0 inside a quote: q[u[u[x]]]
UnquoteAtLevelZeroWitness ==
    \E i, j \in Events :
        /\ IsOp(i, UnquoteOps) /\ Event(i).level = 0 /\ Event(i).syntax = "expr"
        /\ Event(i).exc # NoExc
        /\ IsOp(j, {"q"}) /\ Event(j).start < i /\ i < j

\* C4: every call of q leaves the level stack as it found it, whether it
\* returns or raises; called with a syntax other than expr or block it raises
\* a SyntaxError and has pushed nothing.
QuoteRestoresLevel ==
    /\ \A i \in Events :
          IsOp(i, {"q"}) =>
              /\ Event(i).stack1 = Event(i).stack0
              /\ Event(i).syntax \notin {"expr", "block"} =>
                    /\ Event(i).exc # NoExc
                    /\ Event(i).exc.type = "SyntaxError"
                    /\ Event(i).pushes1 = Event(i).pushes0
    /\ quotelevel = <<0>>

\* a nested q that raised from inside its with statement
QuoteRestoresLevelWitness ==
    \E i \in Events :
        /\ IsOp(i, {"q"}) /\ Event(i).level >= 1
        /\ Event(i).exc # NoExc
        /\ Event(i).pushes1 > Event(i).pushes0
        /\ Event(i).stack1 = Event(i).stack0

\* the quasiquote operators called during the call i are escape operators
\* used at level >= 1 that returned
OnlyEscapes(i) ==
    \A j \in (Event(i).start + 1)..(i - 1) :
        Event(j).ev = "op" =>
            IsOp(j, UnquoteOps) /\ Event(j).level >= 1 /\ Event(j).exc = NoExc

\* C5: a call of q whose body uses only escape operators, at level >= 1,
\* does not trip the remaining-markers assertion and returns no marker.
MarkerPostcondition ==
    \A i \in Events :
        (IsOp(i, {"q"}) /\ Event(i).syntax = "expr" /\ OnlyEscapes(i)) =>
            /\ Event(i).exc # NoExc => Event(i).exc.type # "AssertionError"
            /\ Event(i).markers = <<>>

\* C13: expanding q[q[u[x]]] ends in the remaining-markers assertion of a q:
\* the call raises, and a call of q raised the AssertionError.
NestedQuoteFailsPostcondition ==
    (call # Pending /\ call.op = "visit" /\ call.tree = NestedQuote) =>
        /\ outcome.exc # NoExc
        /\ \E i \in Events : IsOp(i, {"q"}) /\ Event(i).exc # NoExc
                              /\ Event(i).exc.type = "AssertionError"

\* C15: the expander that _expand_quasiquotes walks with has the entries of
\* the table it was given whose macro is one of q, u, n, a, s, h, under the
\* names they have there, and no other entry; an expander made this way calls
\* nothing but these six; and the table of the main expander is the one the
\* call started with.
PrivateTableIsQuoteOnly ==
    \A i \in Events :
        /\ IsEv(i, "quasi") =>
              /\ DOMAIN Event(i).private =
                    {k \in DOMAIN Event(i).main : Event(i).main[k].id \in QuoteOps}
              /\ \A k \in DOMAIN Event(i).private : Event(i).private[k] = Event(i).main[k]
              /\ \A j \in 1..(i - 1) :
                    IsEv(j, "quasi") => DOMAIN Event(j).private = DOMAIN Event(i).private
              /\ (\A j \in 1..(i - 1) : ~IsEv(j, "quasi")) => Event(i).main = call.bindings
        /\ (IsEv(i, "apply") /\ Event(i).e > 1) => Event(i).macro \in QuoteOps

\* quote[m[x]] and quote[q[x]] with q bound to another macro: the private
\* table is {quote, unq}, and nothing but quote was called
PrivateTableWitness ==
    /\ call # Pending /\ call.bindings = RenamedExpander.bindings
    /\ call.tree = Site("quote", Site("q", Site("m", LeafX)))
    /\ outcome.exc = NoExc
    /\ \E i \in Events : IsEv(i, "quasi") /\ DOMAIN Event(i).private = {"quote", "unq"}
    /\ \A i \in Events : IsEv(i, "apply") => Event(i).name = "quote"

\* the event j was logged during the call of the operator that logged i
Within(j, i) == Event(i).start < j /\ j < i
\* the operator call j was made during the call i and during no call in between
DirectlyWithin(j, i) ==
    /\ IsOp(j, QuoteOps) /\ Within(j, i)
    /\ ~\E k \in Events : IsOp(k, QuoteOps) /\ Within(k, i) /\ Within(j, k)

\* C16: the body of q runs at the entry level of q plus 1 and the bodies of
\* u, n, a, h at their entry level minus 1: that is the level at the start of
\* the body and the level every operator called from the body starts at; s
\* pushes nothing; n, a and s call no operator; and each of the six leaves
\* the level stack as it found it.
LevelEffects ==
    \A i \in Events :
        /\ IsEv(i, "body") =>
              Event(i).level = Event(i).entry + (IF Event(i).op = "q" THEN 1 ELSE -1)
        /\ IsOp(i, QuoteOps) =>
              /\ Event(i).stack1 = Event(i).stack0
              /\ Event(i).op = "s" => Event(i).pushes1 = Event(i).pushes0
              /\ \A j \in Events :
                    /\ (IsEv(j, "body") /\ Within(j, i) /\ Event(j).op = Event(i).op
                          /\ ~\E k \in Events : IsOp(k, QuoteOps) /\ Within(k, i)
                                                 /\ Within(j, k)) =>
                          Event(j).entry = Event(i).level
                    /\ DirectlyWithin(j, i) =>
                          /\ Event(i).op \in {"q", "u", "h"}
                          /\ Event(j).level =
                                Event(i).level + (IF Event(i).op = "q" THEN 1 ELSE -1)

\* q at level 0, in it u or h at level 1, in that a q at level 0 with an
\* operator at level 1 in it
LevelEffectsWitness ==
    /\ \E i, j, k, l \in Events :
          /\ IsOp(i, {"q"}) /\ Event(i).level = 0
          /\ IsOp(j, {"u", "h"}) /\ DirectlyWithin(j, i) /\ Event(j).level = 1
          /\ IsOp(k, {"q"}) /\ DirectlyWithin(k, j) /\ Event(k).level = 0
          /\ IsEv(l, "body") /\ Within(l, k) /\ Event(l).level = 1
    /\ quotelevel = <<0>>

\* the call of _unquote_expand that the call i of u or h made
ExpansionIn(i) ==
    CHOOSE j \in Events : IsEv(j, "unquote_expand") /\ Within(j, i)
                          /\ ~\E k \in Events : IsOp(k, QuoteOps) /\ Within(k, i)
                                                 /\ Within(j, k)

\* C18: what u and h return holds the expansion of their argument: at level
\* 0 inside, all macros of the main expander were expanded, and the subtree
\* in the marker is what the expansion returned; the name h gives is the
\* source text of the argument as it came in.
UnquoteWrapsExpansion ==
    \A i \in Events :
        (IsOp(i, {"u", "h"}) /\ Event(i).exc = NoExc) =>
            LET x == Event(ExpansionIn(i))
            IN  /\ x.level = 0 => x.bindings = call.bindings
                /\ Event(i).op = "u" =>
                      Event(i).tree = ASTLiteral(Call(mcpy_quotes_attr("astify"),
                                                      <<x.result>>, <<>>))
                /\ Event(i).op = "h" =>
                      Event(i).tree = CaptureLater(x.result, PyText(x.arg))

-----------------------------------------------------------------------------
(* A BaseMacroExpander with a table of macros, walked in both modes         *)

\* how deep invocation sites nest in a tree handed to the visitor
MaxDepth == 2

\* The binding tables.  m1, m2, m3 are bound; z never is.  No table lets an
\* expansion bring back the site it replaces, so every walk ends.
Tables ==
    {NoBindings,
     [m1 |-> Fn("wrap2"), m2 |-> Fn("ident"),    m3 |-> Fn("once")],
     [m1 |-> Fn("full"),  m2 |-> Fn("raise"),    m3 |-> Fn("once")],
     [m1 |-> Fn("ident"), m2 |-> Fn("wrap3"),    m3 |-> Fn("raise")],
     [m1 |-> Fn("full"),  m2 |-> Fn("wrap3"),    m3 |-> Fn("ident")],
     [m1 |-> Fn("pair"),  m2 |-> Fn("raiseMEE"), m3 |-> Fn("none")]}

TheExpander(table) == Expander(1, table)

RECURSIVE Nested(_)
Nested(k) ==
    IF k = 0 THEN {LeafX}
    ELSE Nested(k - 1)
         \cup {Site(nm, c) : nm \in {"m1", "m2", "m3", "z"}, c \in Nested(k - 1)}

\* an expression, a tuple display of one, or something that is no node
VisitTrees ==
    Nested(MaxDepth)
    \cup {TupleOf(c) : c \in Nested(MaxDepth - 1)}
    \cup {PyNone, PyList(<<LeafX>>)}

\* expander.visit(tree)
Visit(table, tree) ==
    Finish(TheCall("visit", table, "", "expr", tree, NoKw),
           visit(TheExpander(table), tree, WalkState))

\* expander.visit_once(tree)
VisitOnce(table, tree) ==
    Finish(TheCall("visit_once", table, "", "expr", tree, NoKw),
           visit_once(TheExpander(table), tree, WalkState))

VisitNext ==
    \/ \E table \in Tables, tree \in VisitTrees : Visit(table, tree)
    \/ \E table \in Tables, tree \in VisitTrees : VisitOnce(table, tree)
    \/ Return

SpecVisit == WalkInit /\ [][VisitNext]_vars

\* C6: an expander with an empty binding table returns whatever it is given
\* unchanged, node or not, without raising and without walking a single node.
EmptyBindingsShortCircuit ==
    (call # Pending /\ DOMAIN call.bindings = {}) =>
        /\ outcome.tree = call.tree
        /\ outcome.exc = NoExc
        /\ outcome.walked = 0

\* visit of a tree with invocation-site syntax in it, and of a non-node
EmptyBindingsWitness ==
    /\ call # Pending /\ DOMAIN call.bindings = {} /\ call.op = "visit"
    /\ outcome.tree = call.tree
    /\ \/ IsSite(TheExpander([m1 |-> Fn("ident")]), call.tree)
       \/ ~IsNode(call.tree)

\* C7: every call of visit_once leaves _recursive as it found it, whether the
\* walk returned or raised; between calls the expander is in recursive mode.
VisitOnceRestoresMode ==
    /\ \A i \in Events : IsEv(i, "visit_once") => Event(i).after = Event(i).before
    /\ recursive = TRUE

\* a visit_once made by a macro inside a visit_once, the inner walk raising
VisitOnceRestoresModeWitness ==
    \E i, j \in Events :
        /\ IsEv(i, "visit_once") /\ IsEv(j, "visit_once")
        /\ Event(j).start < i /\ i < j
        /\ Event(i).before = FALSE /\ Event(i).exc # NoExc
        /\ Event(j).after = TRUE

\* C8: in single-step mode an expansion is postprocessed and returned as it
\* is, not visited again; a walk started in recursive mode that returns
\* leaves no invocation site of a bound macro in its result.
RewriteModes ==
    /\ \A i \in Events :
          (IsEv(i, "expansion") /\ ~Event(i).recursive) =>
              Event(i).result = Event(i).fixed
    /\ (call # Pending /\ call.op = "visit" /\ outcome.exc = NoExc) =>
          ~HasSite(TheExpander(call.bindings), outcome.tree)

\* one walk with both modes in it: a single-step expansion that keeps the site
\* it introduced, and a recursive one that expands the site it introduced
RewriteModesWitness ==
    /\ call # Pending /\ call.op = "visit" /\ outcome.exc = NoExc
    /\ \E i, j \in Events :
          /\ IsEv(i, "expansion") /\ ~Event(i).recursive
          /\ HasSite(TheExpander(call.bindings), PyList(Event(i).result))
          /\ IsEv(j, "expansion") /\ Event(j).recursive
          /\ HasSite(TheExpander(call.bindings), PyList(Event(j).fixed))
          /\ ~HasSite(TheExpander(call.bindings), PyList(Event(j).result))

\* the except clauses that ran during the call, innermost first
Excepts == {i \in Events : IsEv(i, "except")}
RootError == Event(CHOOSE i \in Excepts : \A j \in Excepts : i <= j).caught
LastExcept == CHOOSE i \in Excepts : \A j \in Excepts : j <= i

KwargsKeepTheirMeaning ==
    \A i \in Events :
        /\ (IsEv(i, "expand_macros") /\ Event(i).exc = NoExc) =>
              ~HasSite(TheExpander(call.bindings), Event(i).result)
        /\ IsEv(i, "visit_once") =>
              \A j \in (Event(i).start + 1)..(i - 1) :
                  IsEv(j, "expansion") => Event(j).result = Event(j).fixed

\* the names used in invocation-site syntax in the tree x
RECURSIVE SiteNames(_)
SiteNames(x) ==
    (IF IsKind(x, "Subscript") /\ IsKind(x.fields.value, "Name")
     THEN {x.fields.value.fields.id.s} ELSE {})
    \cup UNION {SiteNames(ChildrenOf(x)[i]) : i \in DOMAIN ChildrenOf(x)}

\* the macro of the invocation at the root of the call's tree was called
RootMacroCalled ==
    \/ outcome.exc # NoExc
    \/ outcome.tree # call.tree
    \/ \E i \in Events : IsEv(i, "expansion")

\* C14: a walk leaves an invocation whose name is not in the binding table as
\* it is, calling nothing and raising nothing: a tree that uses no bound name
\* comes back unchanged with no expansion made, and an unbound invocation at
\* the root is still there after the walk.  An invocation at the root whose
\* name is bound has its macro called.
UnboundSiteLeftAlone ==
    (call # Pending /\ IsNode(call.tree) /\ DOMAIN call.bindings # {}) =>
        /\ SiteNames(call.tree) \cap DOMAIN call.bindings = {} =>
              /\ outcome.exc = NoExc
              /\ outcome.tree = call.tree
              /\ \A i \in Events : ~IsEv(i, "expansion") /\ ~IsEv(i, "except")
        /\ IsKind(call.tree, "Subscript") =>
              IF call.tree.fields.value.fields.id.s \in DOMAIN call.bindings
              THEN RootMacroCalled
              ELSE outcome.exc = NoExc =>
                      /\ IsKind(outcome.tree, "Subscript")
                      /\ outcome.tree.fields.value = call.tree.fields.value

\* z[m1[x]] under a table that binds m1: m1 was expanded, z[...] stayed
UnboundSiteWitness ==
    /\ call # Pending /\ IsKind(call.tree, "Subscript")
    /\ DOMAIN call.bindings # {}
    /\ call.tree.fields.value.fields.id.s \notin DOMAIN call.bindings
    /\ outcome.exc = NoExc
    /\ \E i \in Events : IsEv(i, "expansion")
    /\ IsKind(outcome.tree, "Subscript")
    /\ outcome.tree.fields.value = call.tree.fields.value

-----------------------------------------------------------------------------
(* The importer: source_to_xcode and multiphase_compile                     *)
(* (src/mcpyrate/importer.py:30-209, src/mcpyrate/markers.py:70-83)         *)
(*                                                                         *)
(* find_macros, expand_macros and global_postprocess are imported from the  *)
(* expander module; they are modelled by what the importer says of them:   *)
(* find_macros collects the bindings of the macro-imports and, with        *)
(* transform, puts a dummy node inside a Done marker in place of each;     *)
(* expand_macros walks the tree with those bindings and postprocesses;     *)
(* global_postprocess takes the Done markers out.                          *)

\* with phase[n] statements go up to this n
MaxPhase == 2
\* statements in the body of a source module
MaxStmts == 3

\* every class derived from ASTMarker
MarkerKinds == QuasiquoteMarkerKinds \cup {"ASTMarker", "Done"}

Module(body) == Node("Module", [body |-> PyList(body)])
BodyOf(tree) == tree.fields.body.elts
\* x
PlainStmt == NodeAt("Expr", 1, [value |-> LeafX])
\* leak[x], an invocation of a macro that leaves a marker behind
LeakStmt == NodeAt("Expr", 1, [value |-> Site("leak", LeafX)])
\* from mod import macros, leak
MacroImport == NodeAt("ImportFrom", 1, [module |-> PyStr("mod"),
                                        names |-> PyList(<<PyStr("macros"), PyStr("leak")>>)])
\* with phase[n]: stmt
WithPhase(i, stmt) ==
    NodeAt("With", 1,
           [items |-> PyList(<<Node("withitem",
                                    [context_expr |-> Site("phase", Constant(PyInt(i))),
                                     optional_vars |-> PyNone])>>),
            body |-> PyList(<<stmt>>)])

\* importer.py:30-59; False is 0
iswithphase(stmt) ==
    IF ~IsKind(stmt, "With") THEN 0
    ELSE IF Len(stmt.fields.items.elts) # 1 THEN 0
    ELSE LET item == stmt.fields.items.elts[1]
             candidate == item.fields.context_expr
         IN  IF item.fields.optional_vars # PyNone THEN 0
             ELSE IF ~IsKind(candidate, "Subscript") THEN 0
             ELSE IF candidate.fields.value.fields.id # PyStr("phase") THEN 0
             ELSE IF ~IsKind(candidate.fields.slice, "Constant") THEN 0
             ELSE IF candidate.fields.slice.fields.value.t # "int" THEN 0
             ELSE IF candidate.fields.slice.fields.value.i < 1 THEN 0
             ELSE candidate.fields.slice.fields.value.i

\* importer.py:62-75: the highest n, False (0) when no statement is a
\* with phase[n], None (-1 here) for an empty body
RECURSIVE HighestIn(_)
HighestIn(stmts) ==
    IF stmts = <<>> THEN -1
    ELSE LET maxn == HighestIn(SubSeq(stmts, 1, Len(stmts) - 1))
             i == iswithphase(stmts[Len(stmts)])
         IN  IF maxn = -1 \/ i > maxn THEN i ELSE maxn
detect_highest_phase(tree) == HighestIn(BodyOf(tree))

\* importer.py:78-101: [out: the statements of the phase, tree: what remains]
split_multiphase_module_ast(tree, phase) ==
    IF phase = 0 THEN [out |-> tree, tree |-> tree]
    ELSE LET stmts == BodyOf(tree)
             remaining == SelectSeq(stmts, LAMBDA stmt : iswithphase(stmt) # phase)
             RECURSIVE ThisPhase(_)
             ThisPhase(k) ==
                 IF k = 0 THEN <<>>
                 ELSE ThisPhase(k - 1)
                      \o (IF iswithphase(stmts[k]) = phase THEN stmts[k].fields.body.elts
                          ELSE <<>>)
         IN  [out |-> Module(ThisPhase(Len(stmts))), tree |-> Module(remaining)]

IsMacroImport(stmt) ==
    /\ IsKind(stmt, "ImportFrom")
    /\ stmt.fields.names.elts # <<>>
    /\ stmt.fields.names.elts[1] = PyStr("macros")

\* find_macros: the bindings of the macro-imports at the top level of the tree
find_macros(tree) ==
    IF \E i \in DOMAIN BodyOf(tree) : IsMacroImport(BodyOf(tree)[i])
    THEN [leak |-> Fn("leak")]
    ELSE NoBindings
\* find_macros(..., transform=True): what it makes of the tree
transform_macro_imports(tree) ==
    Module([i \in DOMAIN BodyOf(tree) |->
               IF IsMacroImport(BodyOf(tree)[i])
               THEN Node("Done", [body |-> NodeAt("Pass", 1, NoFields)])
               ELSE BodyOf(tree)[i]])

\* global_postprocess: every Done marker gives way to its body
RECURSIVE global_postprocess(_)
global_postprocess(x) ==
    CASE x.t = "list" -> PyList([i \in DOMAIN x.elts |-> global_postprocess(x.elts[i])])
      [] x.t = "node" /\ x.kind = "Done" -> global_postprocess(x.fields.body)
      [] x.t = "node" /\ x.kind # "Done" ->
            [x EXCEPT !.fields = [f \in DOMAIN @ |-> global_postprocess(@[f])]]
      [] OTHER -> x

\* expand_macros(tree, bindings=..., filename=...) of the expander module
expand_module(tree, bindings) ==
    global_postprocess(visit(Expander(1, bindings), tree, WalkState).tree)

\* the check is left out
check_nothing(tree) == NoExc
\* markers.py:70-83
check_no_markers_remaining(tree) ==
    IF get_markers(tree, MarkerKinds) # <<>>
    THEN ExcFrom("MacroExpansionError", PyText(tree), NoExc)
    ELSE NoExc

\* the statements a source module is made of
SourceStmts ==
    {PlainStmt, LeakStmt, MacroImport}
    \cup {WithPhase(i, stmt) : i \in 1..MaxPhase, stmt \in {PlainStmt, LeakStmt}}
RECURSIVE Bodies(_)
Bodies(k) ==
    IF k = 0 THEN {<<>>}
    ELSE Bodies(k - 1)
         \cup {Append(b, stmt) : b \in {c \in Bodies(k - 1) : Len(c) = k - 1},
                                 stmt \in SourceStmts}

\* compile(expansion, ...): history of the trees handed to compile
Compiled(tree, temporary) ==
    Append(importer.compiled, [tree |-> tree, temporary |-> temporary])

\* sys.modules[self_module]: no entry is <<>>, an entry is <<module>>.
\* the module object the import system has put there before it asks for the code
OwnModule == [phase |-> -1, tree |-> PyNone]
\* importer.py:177-180: the temporary module of phase k takes the entry
inject_temporary(k, expansion) == <<[phase |-> k, tree |-> expansion]>>
\* the entry is left where it is
keep_temporary(modules) == modules
\* importer.py:182-183
delete_temporary(modules) == <<>>

\* importer.py:194-199, 206: the loader hands over a parsed module
SourceToXcode(body, modules) ==
    /\ importer = Pending
    /\ LET tree == Module(body)
           i == detect_highest_phase(tree)
           start == [pc |-> "phase", multi |-> TRUE, tree |-> tree, k |-> i,
                     expansion |-> PyNone, compiled |-> <<>>, checks |-> <<>>,
                     error |-> NoExc, n |-> i, modules |-> modules, ks |-> <<>>,
                     above |-> [k |-> i + 1, expansion |-> <<>>, remaining |-> <<>>,
                                modules |-> modules]]
       IN  importer' =
              IF i \in {-1, 0}      \* if not n
              THEN [start EXCEPT
                       !.pc = "check", !.multi = FALSE, !.k = 0, !.n = 0,
                       !.expansion = expand_module(transform_macro_imports(tree),
                                                   find_macros(tree))]
              ELSE start
    /\ UNCHANGED <<liftVars, regVars, walkVars, trackVars>>

\* importer.py:140-164: phase k of multiphase_compile, up to the check; ks
\* is the history of the k, above what this pass split, expanded and found
\* in sys.modules, for the next pass to be compared with
PhaseExpand ==
    /\ importer # Pending /\ importer.pc = "phase"
    /\ LET sp == split_multiphase_module_ast(importer.tree, importer.k)
           phase_k_tree == sp.out
           module_macro_bindings == find_macros(phase_k_tree)
       IN  \E expansion \in {expand_module(phase_k_tree, module_macro_bindings)} :
              LET lifted_tree == IF importer.k > 0
                                 THEN Module(BodyOf(expansion) \o BodyOf(sp.tree))
                                 ELSE expansion
              IN  importer' = [importer EXCEPT
                                  !.pc = "check", !.tree = lifted_tree,
                                  !.expansion = global_postprocess(
                                                    transform_macro_imports(expansion)),
                                  !.ks = Append(@, importer.k),
                                  !.above = [k |-> importer.k,
                                             expansion |-> BodyOf(expansion),
                                             remaining |-> BodyOf(sp.tree),
                                             modules |-> importer.modules]]
    /\ UNCHANGED <<liftVars, regVars, walkVars, trackVars>>

\* importer.py:166-170, 182-185, 200: the check, and where it leads; after
\* the check of phase 0 multiphase_compile leaves the loop and returns
CheckMarkers ==
    /\ importer # Pending /\ importer.pc = "check"
    /\ LET err == check_no_markers_remaining(importer.expansion)
       IN  importer' = [importer EXCEPT
                           !.checks = Append(@, [tree |-> importer.expansion, exc |-> err]),
                           !.error = err,
                           !.modules = IF err = NoExc /\ importer.multi /\ importer.k = 0
                                       THEN delete_temporary(@)
                                       ELSE @,
                           !.pc = IF err # NoExc THEN "raised"
                                  ELSE IF importer.multi /\ importer.k > 0 THEN "temporary"
                                  ELSE "return"]
    /\ UNCHANGED <<liftVars, regVars, walkVars, trackVars>>

\* importer.py:177-180: the temporary module of a phase k > 0
CompileTemporary ==
    /\ importer # Pending /\ importer.pc = "temporary"
    /\ importer' = [importer EXCEPT !.compiled = Compiled(importer.expansion, TRUE),
                                    !.modules = inject_temporary(importer.k,
                                                                 importer.expansion),
                                    !.k = @ - 1, !.pc = "phase"]
    /\ UNCHANGED <<liftVars, regVars, walkVars, trackVars>>

\* importer.py:209
CompileFinal ==
    /\ importer # Pending /\ importer.pc = "return"
    /\ importer' = [importer EXCEPT !.compiled = Compiled(importer.expansion, FALSE),
                                    !.pc = "done"]
    /\ UNCHANGED <<liftVars, regVars, walkVars, trackVars>>

\* source_to_xcode has returned or raised; the loader goes on
Loaded ==
    /\ importer # Pending /\ importer.pc \in {"done", "raised"}
    /\ importer' = Pending
    /\ UNCHANGED <<liftVars, regVars, walkVars, trackVars>>

ImportNext ==
    \/ \E body \in Bodies(MaxStmts), modules \in {<<>>, <<OwnModule>>} :
          SourceToXcode(body, modules)
    \/ PhaseExpand
    \/ CheckMarkers
    \/ CompileTemporary
    \/ CompileFinal
    \/ Loaded

SpecImport == WalkInit /\ [][ImportNext]_vars

\* C11: every tree handed to compile, temporary module or final code, was
\* checked before and holds no marker; a check raises exactly when
\* get_markers finds a marker in the tree, and what it raises is a
\* MacroExpansionError.
NoMarkerIsCompiled ==
    importer # Pending =>
        /\ \A i \in DOMAIN importer.compiled :
              /\ get_markers(importer.compiled[i].tree, MarkerKinds) = <<>>
              /\ \E j \in DOMAIN importer.checks :
                    /\ importer.checks[j].tree = importer.compiled[i].tree
                    /\ importer.checks[j].exc = NoExc
        /\ \A j \in DOMAIN importer.checks :
              /\ importer.checks[j].exc # NoExc
                    <=> get_markers(importer.checks[j].tree, MarkerKinds) # <<>>
              /\ importer.checks[j].exc # NoExc
                    => importer.checks[j].exc.type = "MacroExpansionError"
        /\ importer.pc = "raised" <=> importer.error # NoExc

\* the temporary module of phase 1 was compiled, then the check of phase 0
\* found a marker: nothing more is compiled
NoMarkerIsCompiledWitness ==
    /\ importer # Pending /\ importer.pc = "raised" /\ importer.multi
    /\ Len(importer.compiled) = 1 /\ importer.compiled[1].temporary
    /\ importer.k = 0
    /\ get_markers(importer.expansion, MarkerKinds) # <<>>

\* C24: multiphase_compile takes the phases n, n - 1, ..., 0 in this order,
\* n the highest phase of the source; when a phase below n is split off and
\* expanded, the entry of sys.modules under self_module is the temporary
\* module compiled from the phase above, and the body it is split from is
\* the expanded code of the phase above followed by what that split left;
\* when the function has returned there is no entry under self_module.
PhasesDescendToZero ==
    (importer # Pending /\ importer.multi) =>
        LET temporary(k) == <<[phase |-> k, tree |-> importer.compiled[importer.n - k + 1].tree]>>
        IN  /\ \A i \in DOMAIN importer.ks :
                  importer.ks[i] = importer.n - (i - 1) /\ importer.ks[i] >= 0
            /\ importer.ks = <<>> => importer.n = detect_highest_phase(importer.tree)
            /\ (importer.pc = "phase" /\ importer.k < importer.n) =>
                  /\ importer.above.k = importer.k + 1
                  /\ importer.compiled[importer.n - importer.k].temporary
                  /\ importer.modules = temporary(importer.k + 1)
                  /\ BodyOf(importer.tree) =
                        importer.above.expansion \o importer.above.remaining
            /\ (importer.pc # "phase" /\ importer.k < importer.n) =>
                  /\ importer.above.k = importer.k
                  /\ importer.above.modules = temporary(importer.k + 1)
            /\ importer.pc \in {"return", "done"} =>
                  /\ Len(importer.ks) = importer.n + 1
                  /\ importer.ks[Len(importer.ks)] = 0
                  /\ importer.modules = <<>>

\* phases 2, 1 and 0 have been taken, phase 2 had code, phase 0 was expanded
\* with the temporary module of phase 1 in place and holds the code of the
\* phases above; the function has returned and the entry is gone
PhasesDescendWitness ==
    /\ importer # Pending /\ importer.multi /\ importer.pc = "done"
    /\ importer.n = 2 /\ importer.ks = <<2, 1, 0>>
    /\ BodyOf(importer.compiled[1].tree) # <<>>
    /\ importer.above.modules = <<[phase |-> 1, tree |-> importer.compiled[2].tree]>>
    /\ Len(importer.above.expansion) >= 2
    /\ importer.modules = <<>>

-----------------------------------------------------------------------------
(* unastify on call nodes of any callee (quotes.py:193-205, 229-234)        *)

\* positional arguments of a call node handed to unastify
MaxArgs == 2

RECURSIVE DottedRef(_)
\* the tree of a.b.c
DottedRef(path) ==
    IF Len(path) = 1 THEN NameLoad(path[1])
    ELSE Attribute(DottedRef(SubSeq(path, 1, Len(path) - 1)), path[Len(path)])

\* callees: node classes, functions of the module, names it does not bind,
\* and references that do not start at mcpy.quotes
Callees ==
    {DottedRef(path) : path \in
        {<<"mcpy", "quotes", "ast", "Name">>, <<"mcpy", "quotes", "ast", "Constant">>,
         <<"mcpy", "quotes", "ASTLiteral">>,
         <<"mcpy", "quotes", "capture">>, <<"mcpy", "quotes", "lookup">>,
         <<"mcpy", "quotes", "astify">>, <<"mcpy", "quotes", "unastify">>,
         <<"mcpy", "quotes", "ast", "parse">>, <<"mcpy", "quotes", "nosuch">>,
         <<"mcpy", "quotesx", "capture">>, <<"mcpy", "quotes">>,
         <<"os", "system">>, <<"capture">>}}

RECURSIVE ArgLists(_)
ArgLists(k) ==
    IF k = 0 THEN {<<>>}
    ELSE ArgLists(k - 1)
         \cup {Append(xs, Constant(c)) : xs \in {ys \in ArgLists(k - 1) : Len(ys) = k - 1},
                                         c \in {PyInt(1), PyStr("x")}}
KeywordLists == {<<>>, <<Keyword(PyStr("id"), Constant(PyStr("x")))>>}

CallTrees ==
    {Call(func, args, keywords) :
        func \in Callees, args \in ArgLists(MaxArgs), keywords \in KeywordLists}

\* lowered = unastify(tree), on the registries as they are
Lower(tree) ==
    /\ lowered = Pending
    /\ val' = tree
    /\ LET r == unastify(tree, RegState(<<>>))
       IN  /\ lowered' = [tree |-> r.tree, exc |-> r.exc, ran |-> r.st.ran,
                          hr0 |-> hygienic_registry, hb0 |-> hygienic_bindings]
           /\ hygienic_registry' = r.st.hr
           /\ hygienic_bindings' = r.st.hb
           /\ previous_gensyms' = r.st.gens
    /\ UNCHANGED <<importVars, trackVars, walkVars, lifted, returned, lastop>>

\* the caller is done with the result
Lowered ==
    /\ lowered # Pending
    /\ val' = Pending
    /\ lowered' = Pending
    /\ UNCHANGED <<importVars, trackVars, walkVars, regVars, lifted>>

\* trees of kinds unastify has no case for
OtherTrees ==
    {NameLoad("x"), Attribute(NameLoad("x"), "y"), Site("m", LeafX),
     NodeAt("Expr", 1, [value |-> Constant(PyInt(1))]),
     Node("BinOp", [left |-> Constant(PyInt(1)), op |-> Node("Add", NoFields),
                    right |-> Constant(PyInt(1))])}

LowerNext ==
    \/ \E tree \in CallTrees \cup OtherTrees : Lower(tree)
    \/ Lowered

SpecLower == CaptureInit /\ [][LowerNext]_vars

\* the callee of the call node names a node class: mcpy.quotes.ast.<Class> or
\* a marker class of mcpy.quotes
NamesConstructor(func) ==
    LET d == attr_ast_to_dotted_name(func)
    IN  /\ d.exc = NoExc
        /\ lookup_thing(d.path).exc = NoExc
        /\ lookup_thing(d.path).thing.kind = "ctor"

\* C12: unastify of a call node calls nothing but node constructors: when
\* the callee is anything else the call raises, nothing has been run and
\* the capture registries are as they were.
UnastifyCallsConstructorsOnly ==
    lowered # Pending =>
        /\ lowered.ran = {}
        /\ hygienic_registry = lowered.hr0
        /\ hygienic_bindings = lowered.hb0
        /\ (IsKind(val, "Call") /\ ~NamesConstructor(val.fields.func)) =>
              lowered.exc # NoExc

\* the callee of the call node is a dotted reference mcpy.quotes.<...> to
\* something the module mcpy.quotes holds
NamesEngineThing(func) ==
    LET d == attr_ast_to_dotted_name(func)
    IN  /\ d.exc = NoExc
        /\ Len(d.path) >= 3 /\ d.path[1] = "mcpy" /\ d.path[2] = "quotes"
        /\ lookup_thing(d.path).exc = NoExc

\* C22: unastify of a node of another kind than Constant, List, Tuple, Set,
\* Dict, keyword and Call, and of a call node whose callee is no dotted
\* reference to something in mcpy.quotes, raises TypeError and returns
\* nothing.
UnastifyRejectsWithTypeError ==
    lowered # Pending =>
        /\ (IsNode(val) /\ val.kind \notin {"Constant", "List", "Tuple", "Set", "Dict",
                                             "keyword", "Call"}) =>
              lowered.exc = Exc("TypeError") /\ lowered.tree = PyNone
        /\ (IsKind(val, "Call") /\ ~NamesEngineThing(val.fields.func)) =>
              lowered.exc = Exc("TypeError") /\ lowered.tree = PyNone

-----------------------------------------------------------------------------
(* The NestingLevelTracker on its own: with statements on set_to and        *)
(* changed_by, entered and left in the order the nesting of the code gives  *)

\* how many with statements are open at a time
MaxRegions == 3
\* the largest level set_to is asked for
MaxLevel == 2

\* what set_to is called with
TrackerValues ==
    {PyInt(i) : i \in -1..MaxLevel} \cup {PyFloat(1), PyStr("1"), PyNone}
\* what changed_by is called with
TrackerDeltas == {PyInt(i) : i \in -2..1} \cup {PyFloat(1), PyStr("1")}

\* the call op(arg) was made and the with statement entered if it returned
Entered(op, arg, r) ==
    /\ Len(regions) < MaxRegions
    /\ quotelevel' = r.st.stack
    /\ regions' = IF r.exc = NoExc THEN Append(regions, [before |-> quotelevel])
                  ELSE regions
    /\ tracked' = [op |-> op, arg |-> arg, exc |-> r.exc, stack0 |-> quotelevel]
    /\ UNCHANGED <<importVars, liftVars, regVars, recursive, call, outcome>>

\* with tracker.set_to(value):
SetTo(value) == Entered("set_to", value, enter_level(value, WalkState))

\* with tracker.changed_by(delta):
ChangedBy(delta) == Entered("changed_by", delta, changed_by(delta, WalkState))

\* the body of the innermost with statement ends, by running to its end or
\* by an exception that leaves it
Exit(raised) ==
    /\ regions # <<>>
    /\ LET r == leave_level(IF raised THEN Fail(WalkState, Exc("RuntimeError"))
                            ELSE Ok(PyNone, WalkState))
       IN  /\ quotelevel' = r.st.stack
           /\ tracked' = [op |-> "exit", arg |-> PyBool(raised), exc |-> r.exc,
                          stack0 |-> quotelevel, region |-> regions[Len(regions)]]
    /\ regions' = SubSeq(regions, 1, Len(regions) - 1)
    /\ UNCHANGED <<importVars, liftVars, regVars, recursive, call, outcome>>

TrackNext ==
    \/ \E value \in TrackerValues : SetTo(value)
    \/ \E delta \in TrackerDeltas : ChangedBy(delta)
    \/ \E raised \in BOOLEAN : Exit(raised)

SpecTracker == WalkInit /\ [][TrackNext]_vars

\* the level the last call of set_to or changed_by asked for, if it is one
AskedLevel ==
    IF tracked.arg.t # "int" THEN -1
    ELSE IF tracked.op = "set_to" THEN tracked.arg.i
    ELSE tracked.stack0[Len(tracked.stack0)] + tracked.arg.i

\* C17: the stack of the tracker is never empty and holds integers >= 0;
\* set_to with a value that is no integer or is negative, and changed_by
\* with a delta that is no integer or takes the level below 0, raise and
\* leave the stack as it was, any other call pushes the level asked for;
\* every open with statement still has below it the stack it found; and
\* leaving one, at its end or by an exception, pops one value, gives back
\* the stack it found and raises nothing of its own.
TrackerKeepsLevels ==
    /\ quotelevel # <<>>
    /\ \A k \in DOMAIN quotelevel : quotelevel[k] \in Nat
    /\ Len(quotelevel) = Len(regions) + 1
    /\ \A k \in DOMAIN regions : regions[k].before = SubSeq(quotelevel, 1, k)
    /\ (tracked # Pending /\ tracked.op \in {"set_to", "changed_by"}) =>
          IF AskedLevel < 0
          THEN tracked.exc # NoExc /\ quotelevel = tracked.stack0
          ELSE tracked.exc = NoExc /\ quotelevel = Append(tracked.stack0, AskedLevel)
    /\ (tracked # Pending /\ tracked.op = "exit") =>
          /\ quotelevel = tracked.region.before
          /\ tracked.stack0 = Append(quotelevel, tracked.stack0[Len(tracked.stack0)])
          /\ tracked.exc = NoExc <=> tracked.arg = PyBool(FALSE)

\* an inner with statement left by an exception inside two others, the
\* level it had set being another than the one it gave back
TrackerWitness ==
    /\ tracked # Pending /\ tracked.op = "exit" /\ tracked.arg = PyBool(TRUE)
    /\ Len(regions) = 2
    /\ quotelevel = tracked.region.before
    /\ tracked.stack0[Len(tracked.stack0)] # quotelevel[Len(quotelevel)]

-----------------------------------------------------------------------------
(* delete_markers (markers.py:56-67).  The ASTTransformer it derives from   *)
(* is in walker.py, which is not part of the sources: visit(tree) walks a   *)
(* list item by item and hands a node to transform, and generic_visit is    *)
(* that of ast.NodeTransformer, visiting the fields of the node it is given *)

\* how deep markers and other nodes nest in a tree handed to delete_markers
MaxMark == 3

\* ASTMarkerDeleter().visit(x) for the marker classes kinds: transform
\* replaces a marker by its body and goes on with generic_visit of the body
RECURSIVE delete_markers(_, _)
delete_markers(x, kinds) ==
    CASE x.t = "list" ->
            PyList(TupleOfFcn([i \in DOMAIN x.elts |->
                                  IF IsNode(x.elts[i]) THEN delete_markers(x.elts[i], kinds)
                                  ELSE x.elts[i]]))
      [] x.t = "node" ->
            LET tree == IF x.kind \in kinds THEN x.fields.body ELSE x
            IN  IF ~IsNode(tree) THEN tree
                ELSE [tree EXCEPT !.fields = RecordOfFcn(
                         [f \in DOMAIN tree.fields |->
                             IF tree.fields[f].t \in {"node", "list"}
                             THEN delete_markers(tree.fields[f], kinds)
                             ELSE tree.fields[f]])]
      [] OTHER -> x

\* x with every marker of the classes kinds replaced by what it wraps, and
\* every other node kept
RECURSIVE WithoutMarkers(_, _)
WithoutMarkers(x, kinds) ==
    CASE x.t = "list" ->
            PyList(TupleOfFcn([i \in DOMAIN x.elts |-> WithoutMarkers(x.elts[i], kinds)]))
      [] x.t = "node" /\ x.kind \in kinds -> WithoutMarkers(x.fields.body, kinds)
      [] x.t = "node" /\ x.kind \notin kinds ->
            [x EXCEPT !.fields = RecordOfFcn([f \in DOMAIN x.fields |->
                                                WithoutMarkers(x.fields[f], kinds)])]
      [] OTHER -> x

\* markers of the base class and of a class derived from it, and nodes that
\* are no markers, nested k deep around a name
RECURSIVE MarkedTrees(_)
MarkedTrees(k) ==
    IF k = 0 THEN {LeafX}
    ELSE LET P == MarkedTrees(k - 1)
         IN  P \cup {Node("ASTMarker", [body |-> c]) : c \in P}
               \cup {Node("Done", [body |-> c]) : c \in P}
               \cup {NodeAt("Expr", 1, [value |-> c]) : c \in P}
               \cup {TupleOf(c) : c \in P}

\* the classes delete_markers is called for: ASTMarker, which every marker is
\* an instance of, and one class derived from it
MarkerClasses == {{"ASTMarker", "Done"}, {"Done"}}

DeleteInit ==
    /\ val \in MarkedTrees(MaxMark)
    /\ lifted = Pending
    /\ lowered = Pending
    /\ NoRegistry
    /\ NoWalk
    /\ NoImport
    /\ NoTracking

\* lifted = delete_markers(val, cls)
DeleteMarkers(kinds) ==
    /\ lifted = Pending
    /\ lifted' = [tree |-> delete_markers(val, kinds), kinds |-> kinds]
    /\ UNCHANGED <<importVars, trackVars, val, lowered, regVars, walkVars>>

DeleteNext == \E kinds \in MarkerClasses : DeleteMarkers(kinds)
SpecDelete == DeleteInit /\ [][DeleteNext]_vars

\* C23: after delete_markers(tree, cls) no cls marker is left in the result,
\* whatever the markers of the tree wrapped, and the result is the tree with
\* every cls marker replaced by what it wraps and every other node kept.
DeleteMarkersDeletesAll ==
    lifted # Pending =>
        /\ get_markers(lifted.tree, lifted.kinds) = <<>>
        /\ lifted.tree = WithoutMarkers(val, lifted.kinds)


====
